---- MODULE Spec2Model ----
(***************************************************************************)
(* A model of the core of teamcity-ts: the XML document model              *)
(* (XmlDocument / XmlElement, lib/xml.ts) and the composition tree         *)
(* (Construct, Project, Build and the leaf constructs that register        *)
(* themselves on them).                                                    *)
(*                                                                         *)
(* The specifications share the variables:                                 *)
(*   SpecDoc    XmlDocument.Node, with builder callbacks that re-enter it  *)
(*   SpecXml    XmlElement construction and XmlElement.toString            *)
(*   SpecTree   projects, sub-projects, builds and VCS roots; Project.toXml *)
(*   SpecFrag   constructs that register XML fragments on a build or project*)
(*   SpecNode   XmlElement.Node and the builders of elements and constructs *)
(*   SpecClean  the singletons Cleanup and BuildOptions                     *)
(*   SpecOrder  one tree with several children, rendered                    *)
(*   SpecSelf   elements with several attributes, rendered                  *)
(*   SpecAttr   XmlElement.Attribute                                        *)
(*   SpecFmt    XmlElement.toString with and without formatting             *)
(*   SpecLink   XmlElement.Node and XmlDocument.Node given existing elements*)
(*   SpecThrow  constructors and Project.toXml that throw                   *)
(*   SpecRepeat Project.toXml called twice, with generated uuids            *)
(*   SpecOptions BuildOptions.toXml as a function of the props              *)
(* Strings that are rendered are sequences of one-character strings.       *)
(***************************************************************************)
EXTENDS Integers, Sequences, FiniteSets, TLC

\* ---------------------------------------------------------------- bounds
\* SpecDoc: elements on the heap, and pending Node calls nested in one another.
MaxDocElems == 3
MaxDepth == 2
\* SpecXml: elements on the heap, and attributes held by all of them together.
MaxElems == 2
MaxAttrs == 2
\* SpecTree: constructs on the heap.
MaxNodes == 4
\* SpecNode: children of one element.
MaxKids == 2
\* SpecClean: policies of one Cleanup; Cleanups and BuildOptions on the heap.
MaxPolicies == 1
MaxSingletons == 2
\* SpecOrder: elements of the one tree.
MaxOrderElems == 4

VARIABLES
  elems,        \* the heap of XmlElement objects, element e is elems[e]
  root,         \* XmlDocument.root: Undefined or an element
  stack,        \* pending XmlDocument.Node calls that are inside their builder
  lastCall,     \* what the most recent finished XmlDocument.Node call did
  rootAssigns,  \* how many times XmlDocument.root has been assigned
  out,          \* what the most recent XmlElement.toString call returned
  json,         \* what the most recent XmlElement.toJSON call returned
  useDefine,    \* the build's class-field semantics (useDefineForClassFields)
  nodes,        \* the heap of Construct objects, construct c is nodes[c]
  cstack,       \* pending Construct constructors that are inside their builder
  result,       \* what the most recent Project.toXml call returned
  proposals     \* history: every (path, document) handed to _addXmlDoc, in order

xmlVars == <<elems, root, stack, lastCall, rootAssigns, out, json>>
treeVars == <<useDefine, nodes, cstack, result, proposals>>
vars == <<elems, root, stack, lastCall, rootAssigns, out, json,
          useDefine, nodes, cstack, result, proposals>>

\* ------------------------------------------------------- values of the model
\* `undefined` for a reference to an element; elements are 1..Len(elems).
Undefined == 0
\* The XmlDocument, as the value of an element's parent field.
Doc == -1

Last(s) == s[Len(s)]
Front(s) == SubSeq(s, 1, Len(s) - 1)

RECURSIVE Flatten(_)
Flatten(ss) == IF ss = <<>> THEN <<>> ELSE Head(ss) \o Flatten(Tail(ss))

\* The arguments of the overloaded Node / constructor calls, by JavaScript type.
Str(s) == [t |-> "string", s |-> s]
Obj(kv) == [t |-> "object", kv |-> kv]
Fn == [t |-> "function"]
Num == [t |-> "number"]
Null == [t |-> "null"]
El(e) == [t |-> "element", e |-> e]

\* typeof args[i] (i counts from 1 here, from 0 in the source).
TypeOf(args, i) ==
  IF i > Len(args) THEN "undefined"
  ELSE IF args[i].t \in {"object", "null", "element"} THEN "object"
  ELSE args[i].t

NoErr == "none"
ErrDupRoot == "An XmlDocument can only have a single root node"
ErrNoArgs == "No args to parse"
ErrNoName == "an element name must be provided"

\* A parseArgs without the test of the name's type: whatever comes first is the name.
parseArgsAnyName(args) ==
  IF Len(args) = 0 THEN [err |-> ErrNoArgs]
  ELSE
    [ err |-> NoErr,
      name |-> IF TypeOf(args, 1) = "string" THEN args[1].s ELSE <<"?">>,
      contentDef |-> TypeOf(args, 2) = "string" \/ TypeOf(args, 3) = "string",
      content |-> IF TypeOf(args, 2) = "string" THEN args[2].s
                  ELSE IF TypeOf(args, 3) = "string" THEN args[3].s
                  ELSE <<>>,
      attrsDef |-> TypeOf(args, 2) = "object" /\ args[2].t = "object",
      attrs |-> IF TypeOf(args, 2) = "object" /\ args[2].t = "object"
                THEN args[2].kv ELSE <<>>,
      builder |-> \/ TypeOf(args, 2) = "function"
                  \/ TypeOf(args, 3) = "function"
                  \/ TypeOf(args, 4) = "function" ]

\* function parseArgs(...args): NodeArgs
parseArgs(args) ==
  IF Len(args) = 0 THEN [err |-> ErrNoArgs]
  ELSE IF TypeOf(args, 1) # "string" THEN [err |-> ErrNoName]
  ELSE
    [ err |-> NoErr,
      name |-> args[1].s,
      contentDef |-> TypeOf(args, 2) = "string" \/ TypeOf(args, 3) = "string",
      content |-> IF TypeOf(args, 2) = "string" THEN args[2].s
                  ELSE IF TypeOf(args, 3) = "string" THEN args[3].s
                  ELSE <<>>,
      attrsDef |-> TypeOf(args, 2) = "object" /\ args[2].t = "object",
      attrs |-> IF TypeOf(args, 2) = "object" /\ args[2].t = "object"
                THEN args[2].kv ELSE <<>>,
      builder |-> \/ TypeOf(args, 2) = "function"
                  \/ TypeOf(args, 3) = "function"
                  \/ TypeOf(args, 4) = "function" ]

\* An XmlElement as parseArgs' result initialises it; no parent, no children.
\* given and runs are history: whether the call that created the element was
\* handed a builder, and how many times a builder has been called with it.
NewElem(pa) ==
  [ name |-> pa.name,
    attrsDef |-> pa.attrsDef, attrs |-> pa.attrs,
    contentDef |-> pa.contentDef, content |-> pa.content,
    children |-> <<>>,
    parent |-> Undefined,
    given |-> pa.builder, runs |-> 0 ]

\* A builder call made whether or not a builder was handed over.
InvokeAlways(es, pa, node) == [es EXCEPT ![node].runs = @ + 1]

\* if (builder !== undefined) builder(node)
Invoke(es, pa, node) == IF pa.builder THEN [es EXCEPT ![node].runs = @ + 1] ELSE es

\* ============================================================ XmlDocument
NoCall == [op |-> "none", outcome |-> NoErr, ret |-> Undefined,
           rootBefore |-> Undefined, rootAfter |-> Undefined,
           nargs |-> 0, first |-> "undefined", parentOfRet |-> Undefined]

\* The argument lists SpecDoc calls XmlDocument.Node with.
DocArgs ==
  { <<>>, <<Num>>, <<Null>>,
    <<Str(<<"a">>)>>,
    <<Str(<<"a">>), Str(<<"x">>)>>,
    <<Str(<<"a">>), Fn>> }
  \cup { <<El(e)>> : e \in 1..Len(elems) }

\* A throw inside k pending builders: each builder either lets it through
\* (its Node call never finishes) or catches it (the call goes on).
Unwound(k) == SubSeq(stack, 1, Len(stack) - k)

\* What the first argument of a call is: "undefined" when there is none.
FirstArg(args) == IF Len(args) = 0 THEN "undefined" ELSE args[1].t

DocThrow(err, args) ==
  /\ \E k \in 0..Len(stack) : stack' = Unwound(k)
  /\ lastCall' = [op |-> "Node", outcome |-> err, ret |-> Undefined,
                  rootBefore |-> root, rootAfter |-> root,
                  nargs |-> Len(args), first |-> FirstArg(args),
                  parentOfRet |-> Undefined]
  /\ UNCHANGED <<elems, root, rootAssigns>>

\* node.parent = this; this.root = node; return node;
DocAttach(node, rootBefore, nargs, first, es) ==
  /\ elems' = [es EXCEPT ![node].parent = Doc]
  /\ root' = node
  /\ rootAssigns' = rootAssigns + 1
  /\ lastCall' = [op |-> "Node", outcome |-> NoErr, ret |-> node,
                  rootBefore |-> rootBefore, rootAfter |-> node,
                  nargs |-> nargs, first |-> first, parentOfRet |-> Doc]

\* XmlDocument.Node with its two checks in the other order: the arguments first.
DocNodeErrorArgsFirst(args) ==
  IF Len(args) >= 1 /\ args[1].t = "element"
  THEN (IF root # Undefined THEN ErrDupRoot ELSE NoErr)
  ELSE IF parseArgs(args).err # NoErr THEN parseArgs(args).err
  ELSE IF root # Undefined THEN ErrDupRoot
  ELSE NoErr

\* The order of XmlDocument.Node's two checks: the root first, the arguments after.
DocNodeError(args) ==
  IF root # Undefined THEN ErrDupRoot
  ELSE IF Len(args) >= 1 /\ args[1].t = "element" THEN NoErr
  ELSE parseArgs(args).err

\* XmlDocument.Node(...args), up to the call of the builder (if any).
DocNode(args) ==
  LET err == DocNodeError(args) IN
  IF err # NoErr THEN DocThrow(err, args)
  ELSE IF args[1].t = "element"
  THEN /\ DocAttach(args[1].e, root, Len(args), FirstArg(args), elems)
       /\ UNCHANGED stack
  ELSE
    LET pa == parseArgs(args)
        node == Len(elems) + 1 IN
    /\ Len(elems) < MaxDocElems
    /\ IF pa.builder
       THEN /\ Len(stack) < MaxDepth
            /\ elems' = Invoke(Append(elems, NewElem(pa)), pa, node)
            /\ stack' = Append(stack, [op |-> "Node", node |-> node, rootBefore |-> root,
                                       nargs |-> Len(args),
                                       first |-> FirstArg(args)])
            /\ UNCHANGED <<root, rootAssigns, lastCall>>
       ELSE /\ DocAttach(node, root, Len(args), FirstArg(args),
                         Append(elems, NewElem(pa)))
            /\ UNCHANGED stack

\* The builder of the innermost pending XmlDocument.Node call returns.
DocBuilderReturn ==
  /\ stack # <<>>
  /\ LET f == Last(stack) IN DocAttach(f.node, f.rootBefore, f.nargs, f.first, elems)
  /\ stack' = Front(stack)

\* new XmlElement("b"): an element to hand to XmlDocument.Node later.
DocNewElement ==
  /\ Len(elems) < MaxDocElems
  /\ elems' = Append(elems, NewElem(parseArgs(<<Str(<<"b">>)>>)))
  /\ UNCHANGED <<root, stack, lastCall, rootAssigns>>

DocInit ==
  /\ elems = <<>>
  /\ root = Undefined
  /\ stack = <<>>
  /\ lastCall = NoCall
  /\ rootAssigns = 0
  /\ out = [of |-> Undefined, text |-> <<>>]
  /\ json = [of |-> Undefined]
  /\ useDefine = TRUE
  /\ nodes = <<>>
  /\ cstack = <<>>
  /\ result = [of |-> Undefined, docs |-> <<>>]
  /\ proposals = <<>>

DocNext ==
  \/ \E args \in DocArgs : DocNode(args) /\ UNCHANGED <<out, json>> /\ UNCHANGED treeVars
  \/ DocBuilderReturn /\ UNCHANGED <<out, json>> /\ UNCHANGED treeVars
  \/ DocNewElement /\ UNCHANGED <<out, json>> /\ UNCHANGED treeVars

SpecDoc == DocInit /\ [][DocNext]_vars

\* ------------------------------------------------------------------- C1
\* C1: a Node call made on a document without a root, with a name or an element
\* first, succeeds and returns an element whose parent is the document; a Node
\* call made on a document that has a root fails with the duplicate-root error
\* whatever its arguments are, and leaves the root as it was.
RootSingleton ==
  lastCall.op = "Node" =>
    /\ lastCall.rootBefore # Undefined =>
         /\ lastCall.outcome = ErrDupRoot
         /\ lastCall.rootAfter = lastCall.rootBefore
    /\ (lastCall.rootBefore = Undefined /\ lastCall.first \in {"string", "element"}) =>
         /\ lastCall.outcome = NoErr
         /\ lastCall.ret \in 1..Len(elems)
         /\ lastCall.parentOfRet = Doc
         /\ elems[lastCall.ret].parent = Doc

\* A document with a root has just rejected a Node call that had no arguments.
RootSingletonWitness ==
  /\ root # Undefined
  /\ elems[root].parent = Doc
  /\ lastCall.outcome = ErrDupRoot
  /\ lastCall.nargs = 0
  /\ lastCall.rootAfter = root

\* ------------------------------------------------------------------- C2
\* C2: over every sequence of Node calls on a document, calls made from inside
\* the builder of a Node call that has not returned included, the root field is
\* assigned at most once.
RootAssignedOnce == rootAssigns <= 1


\* ============================================================= XmlElement
Digits == {"0", "1", "2", "3", "4", "5", "6", "7", "8", "9"}
DigitVal(c) == CASE c = "0" -> 0 [] c = "1" -> 1 [] c = "2" -> 2 [] c = "3" -> 3
                 [] c = "4" -> 4 [] c = "5" -> 5 [] c = "6" -> 6 [] c = "7" -> 7
                 [] c = "8" -> 8 [] c = "9" -> 9

\* A property key that JavaScript treats as an array index ("0", "1", "12"; not "01").
IsArrayIndex(k) ==
  /\ Len(k) >= 1
  /\ \A i \in 1..Len(k) : k[i] \in Digits
  /\ (Len(k) = 1 \/ k[1] # "0")

RECURSIVE NumVal(_)
NumVal(k) == IF k = <<>> THEN 0 ELSE 10 * NumVal(Front(k)) + DigitVal(Last(k))

RECURSIVE SortIndexKeys(_)
SortIndexKeys(kvs) ==
  IF kvs = <<>> THEN <<>>
  ELSE LET m == CHOOSE i \in 1..Len(kvs) :
                  \A j \in 1..Len(kvs) : NumVal(kvs[i].k) <= NumVal(kvs[j].k)
       IN <<kvs[m]>> \o SortIndexKeys(SubSeq(kvs, 1, m - 1) \o SubSeq(kvs, m + 1, Len(kvs)))

\* Object.entries(attributes): array-index keys ascending, then the other keys in
\* the order they were first set.
ObjectEntries(attrs) ==
  SortIndexKeys(SelectSeq(attrs, LAMBDA a : IsArrayIndex(a.k)))
    \o SelectSeq(attrs, LAMBDA a : ~IsArrayIndex(a.k))

\* The key that names the accessor Object.prototype.__proto__.
ProtoKey == <<"_", "_", "p", "r", "o", "t", "o", "_", "_">>

\* attributes[key] = value, for a string value: a key already there keeps its
\* place; the key __proto__ reaches the setter inherited from Object.prototype,
\* which does nothing when handed a string.
SetAttr(attrs, k, v) ==
  IF k = ProtoKey THEN attrs
  ELSE IF \E i \in 1..Len(attrs) : attrs[i].k = k
  THEN [i \in 1..Len(attrs) |-> IF attrs[i].k = k THEN [k |-> k, v |-> v] ELSE attrs[i]]
  ELSE Append(attrs, [k |-> k, v |-> v])

\* { k1: v1, k2: v2 } as the object an object literal evaluates to.
RECURSIVE ObjectLiteral(_)
ObjectLiteral(kvs) ==
  IF kvs = <<>> THEN <<>>
  ELSE SetAttr(ObjectLiteral(Front(kvs)), Last(kvs).k, Last(kvs).v)

\* String.prototype.replaceAll(pat, rep) for a non-empty string pattern.
RECURSIVE ReplaceAll(_, _, _)
ReplaceAll(s, pat, rep) ==
  IF s = <<>> THEN <<>>
  ELSE IF Len(s) >= Len(pat) /\ SubSeq(s, 1, Len(pat)) = pat
  THEN rep \o ReplaceAll(SubSeq(s, Len(pat) + 1, Len(s)), pat, rep)
  ELSE <<Head(s)>> \o ReplaceAll(Tail(s), pat, rep)

Quote == "\""
QuotEntity == <<"&", "q", "u", "o", "t", ";">>
UndefinedText == <<"u", "n", "d", "e", "f", "i", "n", "e", "d">>
CommentName == <<"-", "-">>
CDATAName == <<"C", "D", "A", "T", "A">>

\* v.replace('"', "&quot;"): the first occurrence only.
EscapeFirst(v) ==
  IF \E i \in 1..Len(v) : v[i] = Quote
  THEN LET i == CHOOSE i \in 1..Len(v) : v[i] = Quote /\ \A j \in 1..(i - 1) : v[j] # Quote
       IN SubSeq(v, 1, i - 1) \o QuotEntity \o SubSeq(v, i + 1, Len(v))
  ELSE v

\* v.replaceAll('"', "&quot;")
EscapeAttr(v) == ReplaceAll(v, <<Quote>>, QuotEntity)

\* ` ${k}="${v.replaceAll('"', "&quot;")}"`
AttrText(a) == <<" ">> \o a.k \o <<"=", Quote>> \o EscapeAttr(a.v) \o <<Quote>>

\* `${this.content}`: an undefined content interpolates as the text undefined.
Interpolate(el) == IF el.contentDef THEN el.content ELSE UndefinedText

\* A self-closing test that also asks for the element to have no attributes.
SelfClosesBare(el) == Len(el.children) = 0 /\ ~el.contentDef /\ ~el.attrsDef

\* The tag is closed at once when there are no children and no content.
SelfCloses(el) == Len(el.children) = 0 /\ ~el.contentDef

\* ` />`
SelfCloseText == <<" ", "/", ">">>

\* A toString that puts the content before the children.
RECURSIVE toStringContentFirst(_, _)
toStringContentFirst(es, e) ==
  LET el == es[e] IN
  IF el.name = CommentName
  THEN <<"<", "!", "-", "-", " ">> \o Interpolate(el) \o <<" ", "-", "-", ">">>
  ELSE IF el.name = CDATAName
  THEN <<"<", "!", "[", "C", "D", "A", "T", "A", "[">> \o Interpolate(el)
         \o <<"]", "]", ">">>
  ELSE
    <<"<">> \o el.name
    \o (IF el.attrsDef
        THEN Flatten([i \in 1..Len(el.attrs) |-> AttrText(ObjectEntries(el.attrs)[i])])
        ELSE <<>>)
    \o (IF SelfCloses(el)
        THEN SelfCloseText
        ELSE <<">">>
             \o (IF el.contentDef THEN el.content ELSE <<>>)
             \o Flatten([i \in 1..Len(el.children) |->
                           toStringContentFirst(es, el.children[i])])
             \o <<"<", "/">> \o el.name \o <<">">>)

\* XmlElement.toString(false), for an element below which children has no cycle.
RECURSIVE toString(_, _)
toString(es, e) ==
  LET el == es[e] IN
  IF el.name = CommentName
  THEN <<"<", "!", "-", "-", " ">> \o Interpolate(el) \o <<" ", "-", "-", ">">>
  ELSE IF el.name = CDATAName
  THEN <<"<", "!", "[", "C", "D", "A", "T", "A", "[">> \o Interpolate(el)
         \o <<"]", "]", ">">>
  ELSE
    <<"<">> \o el.name
    \o (IF el.attrsDef
        THEN Flatten([i \in 1..Len(el.attrs) |-> AttrText(ObjectEntries(el.attrs)[i])])
        ELSE <<>>)
    \o (IF SelfCloses(el)
        THEN SelfCloseText
        ELSE <<">">>
             \o Flatten([i \in 1..Len(el.children) |-> toString(es, el.children[i])])
             \o (IF el.contentDef THEN el.content ELSE <<>>)
             \o <<"<", "/">> \o el.name \o <<">">>)

\* The elements reachable from the elements of S through children, S included.
RECURSIVE Reach(_, _)
Reach(es, S) ==
  LET T == S \cup UNION { {es[e].children[i] : i \in 1..Len(es[e].children)} : e \in S }
  IN IF T = S THEN S ELSE Reach(es, T)

Kids(es, e) == {es[e].children[i] : i \in 1..Len(es[e].children)}

\* toString on e recurses for ever (until the stack overflows) when a cycle of
\* children is reachable from e.
Cyclic(es, e) == \E d \in Reach(es, {e}) : d \in Reach(es, Kids(es, d))

\* ---- the operations of SpecXml
XNames == { <<"i">> }
XKeys == { <<"i", "d">>, <<"1">> }
\* The keys SpecAttr sets.
AKeys == XKeys \cup {ProtoKey}
XVals == { <<"T", "1">>, <<Quote, "<", "&", "'", Quote>> }
XTexts == { <<"x", Quote, "<", "&">> }

\* The argument lists SpecXml creates elements with (no builder among them).
XmlArgs ==
  { <<Str(n)>> : n \in XNames }
  \cup { <<Str(n), Str(c)>> : n \in XNames, c \in XTexts }
  \cup { <<Str(n), Obj(ObjectLiteral(<<>>))>> : n \in XNames }

\* How many attributes the elements of the heap hold, all together.
RECURSIVE AttrCount(_)
AttrCount(es) == IF es = <<>> THEN 0 ELSE Len(Last(es).attrs) + AttrCount(Front(es))

\* A tree is built, then rendered: nothing is changed once toString has been called.
Building == out.of = Undefined /\ json.of = Undefined

\* new XmlElement(...args), while the heap holds fewer than max elements.
XNewWithin(max, args) ==
  /\ Building
  /\ Len(elems) < max
  /\ parseArgs(args).err = NoErr
  /\ elems' = Append(elems, NewElem(parseArgs(args)))
  /\ UNCHANGED <<out, json>>

\* new XmlElement(...args)
XNew(args) == XNewWithin(MaxElems, args)

\* node.parent = this; this.children.unshift(node): the new child put first.
AttachFirst(es, p, node) ==
  [es EXCEPT ![node].parent = p, ![p].children = <<node>> \o es[p].children]

\* node.parent = this; this.children.push(node);
Attach(es, p, node) ==
  [es EXCEPT ![node].parent = p, ![p].children = Append(es[p].children, node)]

\* XmlElement.Node(...args) on element p, with a name first, while the heap holds
\* fewer than max elements.
XNodeWithin(max, p, args) ==
  /\ Building
  /\ Len(elems) < max
  /\ parseArgs(args).err = NoErr
  /\ elems' = Attach(Append(elems, NewElem(parseArgs(args))), p, Len(elems) + 1)
  /\ UNCHANGED <<out, json>>

\* XmlElement.Node(...args) on element p, with a name first.
XNode(p, args) == XNodeWithin(MaxElems, p, args)

\* XmlElement.Attribute(key, value)
XAttribute(e, k, v) ==
  /\ Building
  /\ AttrCount(elems) < MaxAttrs
  /\ elems' = [elems EXCEPT ![e].attrsDef = TRUE,
                            ![e].attrs = SetAttr(IF elems[e].attrsDef
                                                 THEN elems[e].attrs ELSE <<>>, k, v)]
  /\ UNCHANGED <<out, json>>

\* attributes[key], read from an element's attributes: the value of an own
\* property, else what the prototype chain gives.
ObjectPrototype == [t |-> "object", kv |-> "Object.prototype"]
GetAttr(el, k) ==
  IF \E i \in 1..Len(el.attrs) : el.attrs[i].k = k
  THEN Str(el.attrs[CHOOSE i \in 1..Len(el.attrs) : el.attrs[i].k = k].v)
  ELSE IF k = ProtoKey THEN ObjectPrototype
  ELSE [t |-> "undefined"]

\* XmlElement.Attribute(key, value) in SpecAttr, which keeps the call.
AAttribute(e, k, v) ==
  /\ XAttribute(e, k, v)
  /\ lastCall' = [op |-> "Attribute", recv |-> e, key |-> k, value |-> v,
                  before |-> elems[e], after |-> elems'[e],
                  heapAtCall |-> elems, heapAfter |-> elems']

\* XmlElement.Comment(value)
XComment(p, text) == XNode(p, <<Str(CommentName), Str(text)>>)

\* XmlElement.CDATA(value)
XCDATA(p, text) == XNode(p, <<Str(CDATAName), Str(text)>>)

RangeError == <<"RangeError">>

\* XmlElement.toString() on element e.
XToString(e) ==
  /\ json.of = Undefined
  /\ out' = [of |-> e,
             text |-> IF Cyclic(elems, e) THEN RangeError ELSE toString(elems, e)]
  /\ UNCHANGED <<elems, json>>

\* An XmlElement.toJSON that leaves the content out.
RECURSIVE toJSONNoContent(_, _)
toJSONNoContent(es, e) ==
  LET el == es[e] IN
  [k \in {"name", "children"} \cup (IF el.attrsDef THEN {"attributes"} ELSE {}) |->
     CASE k = "name" -> el.name
       [] k = "children" ->
            [i \in 1..Len(el.children) |-> toJSONNoContent(es, el.children[i])]
       [] k = "attributes" -> el.attrs]

\* An XmlElement.toJSON that always gives the four keys, with null for attributes
\* and content that are unset.
RECURSIVE toJSONPlaceholders(_, _)
toJSONPlaceholders(es, e) ==
  LET el == es[e] IN
  [k \in {"name", "children", "attributes", "content"} |->
     CASE k = "name" -> el.name
       [] k = "children" ->
            [i \in 1..Len(el.children) |-> toJSONPlaceholders(es, el.children[i])]
       [] k = "attributes" -> IF el.attrsDef THEN el.attrs ELSE <<>>
       [] k = "content" -> IF el.contentDef THEN el.content ELSE <<>>]

\* XmlElement.toJSON(): name and children always, attributes and content only
\* when they are defined.
RECURSIVE toJSON(_, _)
toJSON(es, e) ==
  LET el == es[e] IN
  [k \in {"name", "children"}
          \cup (IF el.attrsDef THEN {"attributes"} ELSE {})
          \cup (IF el.contentDef THEN {"content"} ELSE {}) |->
     CASE k = "name" -> el.name
       [] k = "children" -> [i \in 1..Len(el.children) |-> toJSON(es, el.children[i])]
       [] k = "attributes" -> el.attrs
       [] k = "content" -> el.content]

\* XmlElement.toJSON() on element e; like toString it recurses for ever when a
\* cycle of children is reachable from e.
XToJSON(e) ==
  /\ out.of = Undefined
  /\ json' = [of |-> e, obj |-> IF Cyclic(elems, e) THEN RangeError ELSE toJSON(elems, e)]
  /\ UNCHANGED <<elems, out>>

\* {}
EmptyObject == [k \in {} |-> Undefined]

\* this.root?.toJSON() ?? {}
DocToJSON(es, r) == IF r = Undefined THEN EmptyObject ELSE toJSON(es, r)

\* XmlDocument.toJSON() on the document.
XDocToJSON ==
  /\ Building
  /\ json' = [of |-> Doc, obj |-> DocToJSON(elems, root)]
  /\ UNCHANGED <<elems, out>>

XmlInit == DocInit

XmlNext ==
  \/ \E args \in XmlArgs : XNew(args) /\ UNCHANGED <<root, stack, lastCall, rootAssigns>> /\ UNCHANGED treeVars
  \/ \E p \in 1..Len(elems), args \in XmlArgs : XNode(p, args) /\ UNCHANGED <<root, stack, lastCall, rootAssigns>> /\ UNCHANGED treeVars
  \/ \E e \in 1..Len(elems), k \in XKeys, v \in XVals : XAttribute(e, k, v) /\ UNCHANGED <<root, stack, lastCall, rootAssigns>> /\ UNCHANGED treeVars
  \/ \E p \in 1..Len(elems), t \in XTexts : XComment(p, t) /\ UNCHANGED <<root, stack, lastCall, rootAssigns>> /\ UNCHANGED treeVars
  \/ \E p \in 1..Len(elems), t \in XTexts : XCDATA(p, t) /\ UNCHANGED <<root, stack, lastCall, rootAssigns>> /\ UNCHANGED treeVars
  \/ \E e \in 1..Len(elems) : XToString(e) /\ UNCHANGED <<root, stack, lastCall, rootAssigns>> /\ UNCHANGED treeVars
  \/ \E e \in 1..Len(elems) : XToJSON(e) /\ UNCHANGED <<root, stack, lastCall, rootAssigns>> /\ UNCHANGED treeVars
  \/ XDocToJSON /\ UNCHANGED <<root, stack, lastCall, rootAssigns>> /\ UNCHANGED treeVars

SpecXml == XmlInit /\ [][XmlNext]_vars

\* ------------------------------------------------------------ SpecOrder
\* One tree: a root element with or without content, below it elements, comments
\* and CDATA sections, each of which may be given children and the attribute id.
OrderNext ==
  \/ \E args \in { <<Str(n)>> : n \in XNames } \cup { <<Str(n), Str(c)>> : n \in XNames, c \in XTexts } :
       elems = <<>> /\ XNewWithin(MaxOrderElems, args) /\ UNCHANGED <<root, stack, lastCall, rootAssigns>> /\ UNCHANGED treeVars
  \/ \E p \in 1..Len(elems), n \in XNames :
       XNodeWithin(MaxOrderElems, p, <<Str(n)>>) /\ UNCHANGED <<root, stack, lastCall, rootAssigns>> /\ UNCHANGED treeVars
  \/ \E p \in 1..Len(elems), t \in XTexts :
       XNodeWithin(MaxOrderElems, p, <<Str(CommentName), Str(t)>>) /\ UNCHANGED <<root, stack, lastCall, rootAssigns>> /\ UNCHANGED treeVars
  \/ \E p \in 1..Len(elems), t \in XTexts :
       XNodeWithin(MaxOrderElems, p, <<Str(CDATAName), Str(t)>>) /\ UNCHANGED <<root, stack, lastCall, rootAssigns>> /\ UNCHANGED treeVars
  \/ \E e \in 1..Len(elems) :
       XAttribute(e, <<"i", "d">>, <<"T", "1">>) /\ UNCHANGED <<root, stack, lastCall, rootAssigns>> /\ UNCHANGED treeVars
  \/ \E e \in 1..Len(elems) : XToString(e) /\ UNCHANGED <<root, stack, lastCall, rootAssigns>> /\ UNCHANGED treeVars

SpecOrder == XmlInit /\ [][OrderNext]_vars

\* ------------------------------------------------------------ SpecSelf
\* Elements given attributes under two ordinary keys and an array-index key,
\* then rendered.
SelfKeys == XKeys \cup { <<"a">> }

\* The argument lists SpecSelf creates elements with: those of SpecXml, and the
\* names -- and CDATA alone.
SelfArgs == XmlArgs \cup { <<Str(CommentName)>>, <<Str(CDATAName)>> }

SelfNext ==
  \/ \E args \in SelfArgs : XNew(args) /\ UNCHANGED <<root, stack, lastCall, rootAssigns>> /\ UNCHANGED treeVars
  \/ \E p \in 1..Len(elems), n \in XNames : XNode(p, <<Str(n)>>) /\ UNCHANGED <<root, stack, lastCall, rootAssigns>> /\ UNCHANGED treeVars
  \/ \E e \in 1..Len(elems), k \in SelfKeys, v \in XVals : XAttribute(e, k, v) /\ UNCHANGED <<root, stack, lastCall, rootAssigns>> /\ UNCHANGED treeVars
  \/ \E e \in 1..Len(elems) : XToString(e) /\ UNCHANGED <<root, stack, lastCall, rootAssigns>> /\ UNCHANGED treeVars

SpecSelf == XmlInit /\ [][SelfNext]_vars

AttrNext ==
  \/ \E args \in XmlArgs : XNew(args) /\ UNCHANGED <<root, stack, lastCall, rootAssigns>> /\ UNCHANGED treeVars
  \/ \E e \in 1..Len(elems), k \in AKeys, v \in XVals : AAttribute(e, k, v) /\ UNCHANGED <<root, stack, rootAssigns>> /\ UNCHANGED treeVars

SpecAttr == XmlInit /\ [][AttrNext]_vars

\* ------------------------------------------------------------- SpecFmt
\* xmlFmt(text, options), the formatter of the library the SDK imports: what it
\* returns is known only as the formatted form of its input.
XmlFmt(text) == [formatted |-> text]

\* The inputs of the formatter calls of a toString that hands its fmt on to the
\* children.
RECURSIVE FmtCallsEveryLevel(_, _, _)
FmtCallsEveryLevel(es, e, fmt) ==
  LET el == es[e] IN
  (IF el.name # CommentName /\ el.name # CDATAName /\ ~SelfCloses(el)
   THEN Flatten([i \in 1..Len(el.children) |-> FmtCallsEveryLevel(es, el.children[i], fmt)])
   ELSE <<>>)
  \o (IF fmt THEN <<toString(es, e)>> ELSE <<>>)

\* The inputs of the formatter calls toString(fmt) on element e makes, in the order
\* of the calls: those of child.toString(false) for every child rendered, then
\* xml.join("") if fmt.
RECURSIVE FmtCalls(_, _, _)
FmtCalls(es, e, fmt) ==
  LET el == es[e] IN
  (IF el.name # CommentName /\ el.name # CDATAName /\ ~SelfCloses(el)
   THEN Flatten([i \in 1..Len(el.children) |-> FmtCalls(es, el.children[i], FALSE)])
   ELSE <<>>)
  \o (IF fmt THEN <<toString(es, e)>> ELSE <<>>)

\* XmlElement.toString(fmt) on element e, with the formatter calls it made.
XToStringFmt(e, fmt) ==
  /\ Building
  /\ ~Cyclic(elems, e)
  /\ out' = [of |-> e, fmt |-> fmt, calls |-> FmtCalls(elems, e, fmt),
             text |-> IF fmt THEN XmlFmt(toString(elems, e)) ELSE toString(elems, e)]
  /\ UNCHANGED <<elems, json>>

FmtNext ==
  \/ \E args \in XmlArgs : XNew(args) /\ UNCHANGED <<root, stack, lastCall, rootAssigns>> /\ UNCHANGED treeVars
  \/ \E p \in 1..Len(elems), args \in XmlArgs : XNode(p, args) /\ UNCHANGED <<root, stack, lastCall, rootAssigns>> /\ UNCHANGED treeVars
  \/ \E p \in 1..Len(elems), t \in XTexts : XComment(p, t) /\ UNCHANGED <<root, stack, lastCall, rootAssigns>> /\ UNCHANGED treeVars
  \/ \E e \in 1..Len(elems), k \in XKeys, v \in XVals : XAttribute(e, k, v) /\ UNCHANGED <<root, stack, lastCall, rootAssigns>> /\ UNCHANGED treeVars
  \/ \E e \in 1..Len(elems), fmt \in BOOLEAN : XToStringFmt(e, fmt) /\ UNCHANGED <<root, stack, lastCall, rootAssigns>> /\ UNCHANGED treeVars

SpecFmt == XmlInit /\ [][FmtNext]_vars

\* C23: toString(true) calls the formatter once, with the whole concatenated text
\* of the element, and returns what the formatter gives; toString(false) calls it
\* not at all, at any depth, and returns the concatenated text.
FormatsOnce ==
  out.of # Undefined =>
    IF out.fmt
    THEN /\ out.calls = <<toString(elems, out.of)>>
         /\ out.text = XmlFmt(toString(elems, out.of))
    ELSE /\ out.calls = <<>>
         /\ out.text = toString(elems, out.of)

\* toString(true) has been called on an element that has a child.
FormatsOnceWitness ==
  /\ out.of # Undefined
  /\ out.fmt
  /\ Len(elems[out.of].children) >= 1
  /\ Len(out.calls) = 1

\* ------------------------------------------------------------ SpecLink
\* p.Node(e) with an element e that exists already, attached or not, p itself
\* included: node = args[0]; node.parent = this; this.children.push(node).
XNodeElement(p, e) ==
  /\ Building
  /\ Len(elems[p].children) < MaxKids
  /\ elems' = Attach(elems, p, e)
  /\ UNCHANGED <<out, json>>

LinkArgs == { <<Str(n)>> : n \in XNames }

LinkNext ==
  \/ \E args \in LinkArgs : XNew(args) /\ UNCHANGED <<root, stack, lastCall, rootAssigns>> /\ UNCHANGED treeVars
  \/ \E p \in 1..Len(elems), args \in LinkArgs : XNode(p, args) /\ UNCHANGED <<root, stack, lastCall, rootAssigns>> /\ UNCHANGED treeVars
  \/ \E p \in 1..Len(elems), e \in 1..Len(elems) : XNodeElement(p, e) /\ UNCHANGED <<root, stack, lastCall, rootAssigns>> /\ UNCHANGED treeVars
  \/ \E e \in 1..Len(elems) : Building /\ DocNode(<<El(e)>>) /\ UNCHANGED <<out, json>> /\ UNCHANGED treeVars
  \/ \E e \in 1..Len(elems) : XToString(e) /\ UNCHANGED <<root, stack, lastCall, rootAssigns>> /\ UNCHANGED treeVars
  \/ \E e \in 1..Len(elems) : XToJSON(e) /\ UNCHANGED <<root, stack, lastCall, rootAssigns>> /\ UNCHANGED treeVars

SpecLink == XmlInit /\ [][LinkNext]_vars

\* How often element c occurs in the children of element e.
Times(e, c) == Cardinality({ i \in 1..Len(elems[e].children) : elems[e].children[i] = c })

\* C27: every entry c of the children of an element e has e as its parent, occurs
\* once in e's children and in no other element's; the root of the document has
\* the document as its parent.
LinkageConsistent ==
  /\ \A e \in 1..Len(elems) : \A i \in 1..Len(elems[e].children) :
       LET c == elems[e].children[i] IN
       /\ elems[c].parent = e
       /\ Times(e, c) = 1
       /\ \A d \in 1..Len(elems) : d # e => Times(d, c) = 0
  /\ root # Undefined => elems[root].parent = Doc

\* C28: the children relation has no cycle, and toString() and toJSON() return.
RenderingReturns ==
  /\ \A e \in 1..Len(elems) : ~Cyclic(elems, e)
  /\ out.of # Undefined => out.text # RangeError
  /\ json.of # Undefined => json.obj # RangeError

\* ------------------------------------------------------------------ C22
AttributeCalled == lastCall.op = "Attribute"

\* The attributes object of an element, as the pairs Object.entries gives; nothing
\* when the map is unset.
Entries(el) == IF el.attrsDef THEN ObjectEntries(el.attrs) ELSE <<>>

\* After Attribute(key, value): the map is set, every other key has the value it
\* had, no other key has appeared, and the same call made again changes nothing.
AttributeKeepsOthers ==
  /\ lastCall.after.attrsDef
  /\ \A k \in AKeys \ {lastCall.key} :
       GetAttr(lastCall.after, k) = GetAttr(lastCall.before, k)
  /\ { Entries(lastCall.after)[i].k : i \in 1..Len(Entries(lastCall.after)) }
       \subseteq { Entries(lastCall.before)[i].k : i \in 1..Len(Entries(lastCall.before)) }
                  \cup {lastCall.key}
  /\ SetAttr(lastCall.after.attrs, lastCall.key, lastCall.value) = lastCall.after.attrs
  /\ \A e \in 1..Len(lastCall.heapAtCall) :
       e # lastCall.recv => lastCall.heapAfter[e] = lastCall.heapAtCall[e]
  /\ lastCall.after = [lastCall.before EXCEPT !.attrsDef = lastCall.after.attrsDef,
                                              !.attrs = lastCall.after.attrs]

\* C22: after Attribute(key, value), attributes[key] is value, the map is set,
\* all other keys are unchanged and the same call made again gives the same
\* state, for every key.
AttributeSetsAsStated ==
  AttributeCalled =>
    /\ GetAttr(lastCall.after, lastCall.key) = Str(lastCall.value)
    /\ AttributeKeepsOthers

\* ---------------------------------------------------------------- C9, C10
\* The element toString was last called on, as it was then (nothing changes
\* once toString has been called).
Rendered == elems[out.of]
IsNormal(el) == el.name # CommentName /\ el.name # CDATAName

\* An attribute value with every double quote, and nothing else, turned into &quot;.
QuotEscaped(v) ==
  Flatten([i \in 1..Len(v) |-> IF v[i] = Quote THEN QuotEntity ELSE <<v[i]>>])

\* One ` key="escaped-value"` per attribute, in the order of the sequence kvs.
AttrsAs(kvs) ==
  Flatten([i \in 1..Len(kvs) |->
             <<" ">> \o kvs[i].k \o <<"=", Quote>> \o QuotEscaped(kvs[i].v) \o <<Quote>>])

NoIndexKeys(el) == \A i \in 1..Len(el.attrs) : ~IsArrayIndex(el.attrs[i].k)

\* C9, as stated: an element with no children and undefined content renders as
\* <name, one key="escaped-value" per attribute in insertion order, then />.
SelfClosingAsStated ==
  (out.of # Undefined /\ IsNormal(Rendered) /\ Len(Rendered.children) = 0
     /\ ~Rendered.contentDef) =>
    out.text = <<"<">> \o Rendered.name \o AttrsAs(Rendered.attrs) \o <<"/", ">">>

\* C9, amended: an element other than a comment or a CDATA section, with no
\* children and undefined content, none of whose attribute keys is an array
\* index, renders as <name, one key="escaped-value" per attribute in insertion
\* order, then a space and />; an element named -- or CDATA without content
\* renders as <!-- undefined --> or <![CDATA[undefined]]>, whatever its attributes.
SelfClosingText ==
  /\ (out.of # Undefined /\ IsNormal(Rendered) /\ Len(Rendered.children) = 0
        /\ ~Rendered.contentDef /\ NoIndexKeys(Rendered)) =>
       out.text = <<"<">> \o Rendered.name \o AttrsAs(Rendered.attrs) \o <<" ", "/", ">">>
  /\ (out.of # Undefined /\ Rendered.name = CommentName /\ ~Rendered.contentDef) =>
       out.text = <<"<", "!", "-", "-", " ", "u", "n", "d", "e", "f", "i", "n", "e", "d",
                    " ", "-", "-", ">">>
  /\ (out.of # Undefined /\ Rendered.name = CDATAName /\ ~Rendered.contentDef) =>
       out.text = <<"<", "!", "[", "C", "D", "A", "T", "A", "[", "u", "n", "d", "e", "f",
                    "i", "n", "e", "d", "]", "]", ">">>

\* A childless element without content has been rendered that was given the
\* attribute id and then the attribute a, one of them with a double quote in its
\* value: the two are in the text in that order, not in the order of the keys.
SelfClosingWitness ==
  /\ out.of # Undefined
  /\ IsNormal(Rendered) /\ Len(Rendered.children) = 0 /\ ~Rendered.contentDef
  /\ Len(Rendered.attrs) = 2 /\ NoIndexKeys(Rendered)
  /\ Rendered.attrs[1].k = <<"i", "d">>
  /\ Rendered.attrs[2].k = <<"a">>
  /\ \E i \in 1..Len(Rendered.attrs) : \E j \in 1..Len(Rendered.attrs[i].v) :
        Rendered.attrs[i].v[j] = Quote

\* C10: in the text of an element, each attribute value appears with every
\* double quote replaced by &quot; and no other character changed, and the text
\* content appears unchanged (also in a comment and in a CDATA section).
AttributeEscaping ==
  /\ (out.of # Undefined /\ IsNormal(Rendered) /\ Len(Rendered.children) = 0) =>
       out.text = <<"<">> \o Rendered.name \o AttrsAs(ObjectEntries(Rendered.attrs))
                  \o (IF Rendered.contentDef
                      THEN <<">">> \o Rendered.content \o <<"<", "/">> \o Rendered.name
                           \o <<">">>
                      ELSE <<" ", "/", ">">>)
  /\ (out.of # Undefined /\ Rendered.name = CommentName /\ Rendered.contentDef) =>
       out.text = <<"<", "!", "-", "-", " ">> \o Rendered.content \o <<" ", "-", "-", ">">>
  /\ (out.of # Undefined /\ Rendered.name = CDATAName /\ Rendered.contentDef) =>
       out.text = <<"<", "!", "[", "C", "D", "A", "T", "A", "[">> \o Rendered.content
                  \o <<"]", "]", ">">>

\* An element has been rendered that has content with a double quote in it and an
\* attribute whose value holds two double quotes and the characters <, & and '.
AttributeEscapingWitness ==
  /\ out.of # Undefined
  /\ IsNormal(Rendered) /\ Len(Rendered.children) = 0
  /\ Rendered.contentDef
  /\ \E j \in 1..Len(Rendered.content) : Rendered.content[j] = Quote
  /\ \E i \in 1..Len(Rendered.attrs) :
        Rendered.attrs[i].v = <<Quote, "<", "&", "'", Quote>>

\* ------------------------------------------------------------------ C18
\* The texts of the children of el, one after the other in children order.
ChildrenText(el) ==
  Flatten([i \in 1..Len(el.children) |-> toString(elems, el.children[i])])

\* C18: the text of a normal element with children or content is its open tag
\* (name and attributes), the text of every child in children order, the content
\* as it is (if defined) and the closing tag; every comment in the rendered tree
\* has the text <!-- content --> and every CDATA section <![CDATA[content]]>,
\* whatever attributes or children it was given.
ContentAfterChildren ==
  (out.of # Undefined /\ out.text # RangeError) =>
    /\ (IsNormal(Rendered) /\ (Len(Rendered.children) > 0 \/ Rendered.contentDef)) =>
         out.text = <<"<">> \o Rendered.name \o AttrsAs(ObjectEntries(Rendered.attrs))
                    \o <<">">> \o ChildrenText(Rendered)
                    \o (IF Rendered.contentDef THEN Rendered.content ELSE <<>>)
                    \o <<"<", "/">> \o Rendered.name \o <<">">>
    /\ \A e \in Reach(elems, {out.of}) :
         /\ (elems[e].name = CommentName /\ elems[e].contentDef) =>
              toString(elems, e) = <<"<", "!", "-", "-", " ">> \o elems[e].content
                                   \o <<" ", "-", "-", ">">>
         /\ (elems[e].name = CDATAName /\ elems[e].contentDef) =>
              toString(elems, e) = <<"<", "!", "[", "C", "D", "A", "T", "A", "[">>
                                   \o elems[e].content \o <<"]", "]", ">">>

\* An element with content and two children has been rendered: first a comment
\* that was given an attribute and a child, then an element. The text has the
\* comment, the second child and the content in that order, and nothing of what
\* the comment was given.
ContentAfterChildrenWitness ==
  /\ out.of # Undefined
  /\ IsNormal(Rendered) /\ Rendered.contentDef /\ Len(Rendered.children) = 2
  /\ elems[Rendered.children[1]].name = CommentName
  /\ elems[Rendered.children[1]].attrsDef
  /\ Len(elems[Rendered.children[1]].attrs) >= 1
  /\ Len(elems[Rendered.children[1]].children) = 1
  /\ IsNormal(elems[Rendered.children[2]])
  /\ out.text = <<"<", "i", ">">> \o <<"<", "!", "-", "-", " ">>
                \o elems[Rendered.children[1]].content \o <<" ", "-", "-", ">">>
                \o <<"<", "i", " ", "/", ">">>
                \o Rendered.content \o <<"<", "/", "i", ">">>

\* ------------------------------------------------------------------ C11
\* An element tree made again from a toJSON() result with the public operations:
\* new XmlElement(name), Attribute for every entry of attributes, content set when
\* present, Node(child) for every entry of children. The result is a heap and the
\* element in it.
RECURSIVE FromJSON(_, _)
FromJSON(es, obj) ==
  LET id == Len(es) + 1
      RECURSIVE attrs(_, _)
      attrs(acc, kvs) ==
        IF kvs = <<>> THEN acc ELSE attrs(SetAttr(acc, Head(kvs).k, Head(kvs).v), Tail(kvs))
      given == IF "attributes" \in DOMAIN obj THEN ObjectEntries(obj.attributes) ELSE <<>>
      base == [NewElem(parseArgs(<<Str(obj.name)>>)) EXCEPT
                 !.attrsDef = given # <<>>,
                 !.attrs = attrs(<<>>, given),
                 !.contentDef = "content" \in DOMAIN obj,
                 !.content = IF "content" \in DOMAIN obj THEN obj.content ELSE <<>>]
      RECURSIVE kids(_, _)
      kids(h, i) ==
        IF i > Len(obj.children) THEN h
        ELSE LET r == FromJSON(h, obj.children[i]) IN kids(Attach(r.es, id, r.id), i + 1)
  IN [es |-> kids(Append(es, base), 1), id |-> id]

\* C11: for an element tree built with Node, Attribute, Comment and CDATA, the
\* tree made again from the result of toJSON() renders with toString() to the
\* same text as the original tree.
RoundTrip ==
  (json.of # Undefined /\ json.of # Doc) =>
    LET r == FromJSON(<<>>, json.obj) IN toString(r.es, r.id) = toString(elems, json.of)

\* toJSON has been called on an element that has a child and an attribute, in a
\* tree that holds content.
RoundTripWitness ==
  /\ json.of # Undefined /\ json.of # Doc
  /\ Len(elems[json.of].children) >= 1
  /\ elems[json.of].attrsDef /\ Len(elems[json.of].attrs) >= 1
  /\ \E e \in Reach(elems, {json.of}) : elems[e].contentDef

\* ------------------------------------------------------------------ C25
\* The keys toJSON() is to give for an element.
JSONKeys(el) ==
  {"name", "children"}
  \cup (IF el.attrsDef THEN {"attributes"} ELSE {})
  \cup (IF el.contentDef THEN {"content"} ELSE {})

\* The object obj has the keys of element e, the key attributes with e's attributes
\* and the key content with e's content when it has them, and the same goes for
\* the entries of obj.children and e's children, one for one.
RECURSIVE JSONShape(_, _)
JSONShape(obj, e) ==
  /\ DOMAIN obj = JSONKeys(elems[e])
  /\ obj.name = elems[e].name
  /\ elems[e].attrsDef => obj.attributes = elems[e].attrs
  /\ elems[e].contentDef => obj.content = elems[e].content
  /\ Len(obj.children) = Len(elems[e].children)
  /\ \A i \in 1..Len(obj.children) : JSONShape(obj.children[i], elems[e].children[i])

\* C25: the result of toJSON() on an element has the keys name and children, the
\* key attributes exactly when the attributes are set and the key content exactly
\* when the content is set, and so have the objects of all its children; the
\* result of toJSON() on a document without a root has no key at all.
JSONKeysExact ==
  /\ (json.of # Undefined /\ json.of # Doc) => JSONShape(json.obj, json.of)
  /\ (json.of = Doc /\ root = Undefined) => DOMAIN json.obj = {}

\* toJSON has been called on an element without attributes or content whose child
\* has both.
JSONKeysExactWitness ==
  /\ json.of # Undefined /\ json.of # Doc
  /\ DOMAIN json.obj = {"name", "children"}
  /\ Len(json.obj.children) = 1
  /\ DOMAIN json.obj.children[1] = {"name", "children", "attributes", "content"}

\* ------------------------------------------- the operations of SpecNode
\* The argument lists SpecNode calls new XmlElement and XmlElement.Node with.
\* The elements handed over are finished ones that have no parent yet.
NodeArgs ==
  { <<>>, <<Num>>, <<Str(<<"a">>)>>, <<Str(<<"a">>), Fn>> }
  \cup { <<El(e)>> : e \in { x \in 1..Len(elems) :
                               /\ elems[x].parent = Undefined
                               /\ \A i \in 1..Len(stack) : stack[i].node # x } }

\* The argument lists SpecNode calls XmlDocument.Node with.
NodeDocArgs == { <<>>, <<Null>>, <<Str(<<"a">>), Fn>> }

\* new XmlElement(...args) (op "new") or recv.Node(...args) (op "ENode") throws.
NThrow(op, err, recv, args) ==
  /\ \E k \in 0..Len(stack) : stack' = Unwound(k)
  /\ lastCall' = [op |-> op, outcome |-> err, ret |-> Undefined, recv |-> recv,
                  before |-> IF recv = Undefined THEN <<>> ELSE elems[recv].children,
                  after |-> IF recv = Undefined THEN <<>> ELSE elems[recv].children,
                  parentOfRet |-> Undefined,
                  passed |-> Undefined, heapAtCall |-> Len(elems), heapAfter |-> Len(elems),
                  nargs |-> Len(args), first |-> FirstArg(args)]
  /\ UNCHANGED <<elems, root, rootAssigns>>

\* The end of a call: recv.Node attaches the node as the last child and returns
\* it, the constructor returns the new element.
NReturn(op, recv, node, passed, heapAtCall, nargs, first, es) ==
  /\ elems' = IF op = "ENode" THEN Attach(es, recv, node) ELSE es
  /\ lastCall' = [op |-> op, outcome |-> NoErr, ret |-> node, recv |-> recv,
                  before |-> IF op = "ENode" THEN es[recv].children ELSE <<>>,
                  after |-> IF op = "ENode" THEN elems'[recv].children ELSE <<>>,
                  parentOfRet |-> elems'[node].parent,
                  passed |-> passed, heapAtCall |-> heapAtCall, heapAfter |-> Len(es),
                  nargs |-> nargs, first |-> first]
  /\ UNCHANGED <<root, rootAssigns>>

\* new XmlElement(...args) or recv.Node(...args), up to the call of the builder.
NCall(op, recv, args) ==
  IF op = "ENode" /\ Len(args) >= 1 /\ args[1].t = "element"
  THEN /\ Len(elems[recv].children) < MaxKids
       /\ args[1].e # recv
       /\ NReturn(op, recv, args[1].e, args[1].e, Len(elems), Len(args), "element", elems)
       /\ UNCHANGED stack
  ELSE IF parseArgs(args).err # NoErr
  THEN NThrow(op, parseArgs(args).err, recv, args)
  ELSE
    LET pa == parseArgs(args)
        node == Len(elems) + 1
        es0 == Append(elems, NewElem(pa))
        es1 == Invoke(es0, pa, node)
    IN /\ Len(elems) < MaxDocElems
       /\ op = "ENode" => Len(elems[recv].children) < MaxKids
       /\ IF es1[node].runs > 0
          THEN /\ Len(stack) < MaxDepth
               /\ elems' = es1
               /\ stack' = Append(stack, [op |-> op, node |-> node, recv |-> recv,
                                          heapAtCall |-> Len(elems),
                                          nargs |-> Len(args), first |-> FirstArg(args)])
               /\ UNCHANGED <<root, rootAssigns, lastCall>>
          ELSE /\ NReturn(op, recv, node, Undefined, Len(elems), Len(args),
                          FirstArg(args), es1)
               /\ UNCHANGED stack

\* new XmlElement(...args)
NNew(args) == NCall("new", Undefined, args)

\* XmlElement.Node(...args) on element p
NNode(p, args) == NCall("ENode", p, args)

\* The builder of the innermost pending call returns, and the call runs to its end.
NBuilderReturn ==
  /\ stack # <<>>
  /\ LET f == Last(stack) IN
     IF f.op = "Node"
     THEN DocAttach(f.node, f.rootBefore, f.nargs, f.first, elems)
     ELSE NReturn(f.op, f.recv, f.node, Undefined, f.heapAtCall, f.nargs, f.first, elems)
  /\ stack' = Front(stack)


\* ------------------------------------------------------------------ C12
Malformed(call) == call.nargs = 0 \/ call.first \notin {"string", "element"}

\* C12: new XmlElement, XmlElement.Node and XmlDocument.Node on a document
\* without a root, called with no arguments or with a first argument that is
\* neither a string nor an element, throw; no element is returned, and the
\* receiver's children, or the document's root, are as they were before the call.
MalformedRejected ==
  /\ (lastCall.op \in {"new", "ENode"} /\ Malformed(lastCall)) =>
       /\ lastCall.outcome = IF lastCall.nargs = 0 THEN ErrNoArgs ELSE ErrNoName
       /\ lastCall.ret = Undefined
       /\ lastCall.heapAfter = lastCall.heapAtCall
       /\ lastCall.op = "ENode" => lastCall.after = lastCall.before
  /\ (lastCall.op = "Node" /\ lastCall.rootBefore = Undefined /\ Malformed(lastCall)) =>
       /\ lastCall.outcome = IF lastCall.nargs = 0 THEN ErrNoArgs ELSE ErrNoName
       /\ lastCall.ret = Undefined
       /\ lastCall.rootAfter = Undefined

\* XmlElement.Node has just rejected a number on an element that has a child.
MalformedRejectedWitness ==
  /\ lastCall.op = "ENode"
  /\ lastCall.first = "number"
  /\ lastCall.outcome = ErrNoName
  /\ Len(lastCall.after) >= 1

\* ------------------------------------------------------------------ C15
\* C15: a call of XmlElement.Node that returns, returns the element it was handed
\* or else an element that did not exist before the call; that element's parent is
\* the receiver, and the receiver's children are the children it had just before,
\* in the same order, followed by that element.
NodeAppendsLast ==
  (lastCall.op = "ENode" /\ lastCall.outcome = NoErr) =>
    /\ lastCall.ret \in 1..Len(elems)
    /\ IF lastCall.passed # Undefined
       THEN lastCall.ret = lastCall.passed
       ELSE lastCall.ret = lastCall.heapAtCall + 1
    /\ lastCall.parentOfRet = lastCall.recv
    /\ lastCall.after = Append(lastCall.before, lastCall.ret)

\* A call of Node with a builder has returned on a receiver that already had a
\* child, which another Node call made from inside that builder had attached.
NodeAppendsLastWitness ==
  /\ lastCall.op = "ENode" /\ lastCall.outcome = NoErr
  /\ lastCall.passed = Undefined
  /\ elems[lastCall.ret].given
  /\ Len(lastCall.before) >= 1
  /\ lastCall.before[1] > lastCall.ret


\* ============================================================== Construct
\* The elements and documents that toXml builds are given as values: an element
\* is a record of its name, its attributes (pairs, in insertion order), its
\* content and the sequence of its children; a document is a record of its root.
\* Of an element's attributes and children the ones the leaf classes add from
\* their own props (uuid, xmlns, the param children) are left out.
E(name, attrs, children) ==
  [name |-> name, attrs |-> attrs, contentDef |-> FALSE, content |-> "",
   children |-> children]
Text(name, content) ==
  [name |-> name, attrs |-> <<>>, contentDef |-> TRUE, content |-> content,
   children |-> <<>>]
XmlDocument(rootElem) == [root |-> rootElem]

\* A prop the caller did not supply.
NoProp == "(undefined)"
\* a ?? b
Coalesce(a, b) == IF a = NoProp THEN b ELSE a

\* A construct, as Construct's constructor and field initialisers leave it. The
\* semantic collections (subProjects, builds, ...) are empty when undefined.
\* done and fluent are history: whether the constructor has returned, and whether
\* the construct was created while its scope's constructor was still running; so
\* are given and runs: whether the constructor was handed a builder, and how many
\* times a builder has been called with the construct.
NewConstruct(kind, cls, id, name, scope, parentProject, fluent) ==
  [ kind |-> kind, cls |-> cls, id |-> id, name |-> name,
    scope |-> scope, parentProject |-> parentProject,
    subProjects |-> <<>>, builds |-> <<>>, vcsRoots |-> <<>>,
    extensions |-> <<>>, parameters |-> <<>>, triggers |-> <<>>,
    xmlDocs |-> <<>>, xmlBuilders |-> <<>>,
    cleanupRules |-> Undefined, options |-> Undefined, uuid |-> NoProp,
    done |-> FALSE, fluent |-> fluent, given |-> FALSE, runs |-> 0 ]

\* if (typeof builder !== "undefined") builder(this), in Construct's constructor.
CallBuilder(ns, c, withBuilder) ==
  IF withBuilder THEN [ns EXCEPT ![c].given = TRUE, ![c].runs = @ + 1]
  ELSE ns

OfKind(ns, kind) == { c \in 1..Len(ns) : ns[c].kind = kind }
Pending(c) == \E i \in 1..Len(cstack) : cstack[i] = c

\* A _rootNode that also climbs from a sub-project to its parent project.
RECURSIVE RootNodeThroughParent(_, _)
RootNodeThroughParent(ns, c) ==
  IF ns[c].scope # Undefined THEN RootNodeThroughParent(ns, ns[c].scope)
  ELSE IF ns[c].parentProject # Undefined
  THEN RootNodeThroughParent(ns, ns[c].parentProject)
  ELSE c

\* get _rootNode()
RECURSIVE RootNode(_, _)
RootNode(ns, c) == IF ns[c].scope = Undefined THEN c ELSE RootNode(ns, ns[c].scope)

\* A map from strings, as a JavaScript object keeps it: entries in insertion order.
Keys(m) == { m[i].path : i \in 1..Len(m) }
Get(m, path) == m[CHOOSE i \in 1..Len(m) : m[i].path = path].doc
\* m[path] = doc
MapSet(m, path, doc) ==
  IF path \in Keys(m)
  THEN [i \in 1..Len(m) |-> IF m[i].path = path THEN [path |-> path, doc |-> doc] ELSE m[i]]
  ELSE Append(m, [path |-> path, doc |-> doc])

\* Object.entries(src).forEach(([k, v]) => documents[k] = v)
RECURSIVE MergeInto(_, _)
MergeInto(m, src) ==
  IF src = <<>> THEN m
  ELSE MergeInto(MapSet(m, Head(src).path, Head(src).doc), Tail(src))

\* An _addXmlDoc that keeps the document in the registry of the construct it is
\* called on.
AddXmlDocOwn(ns, c, path, doc) ==
  IF path \notin Keys(ns[c].xmlDocs)
  THEN [ns EXCEPT ![c].xmlDocs = Append(@, [path |-> path, doc |-> doc])]
  ELSE ns

\* _addXmlDoc(path, doc) called on construct c.
AddXmlDoc(ns, c, path, doc) ==
  LET r == RootNode(ns, c) IN
  IF path \notin Keys(ns[r].xmlDocs)
  THEN [ns EXCEPT ![r].xmlDocs = Append(@, [path |-> path, doc |-> doc])]
  ELSE ns

\* _addXmlBuilder with a key of its own for every instance: the map grows each time.
AddXmlBuilderPerInstance(ns, c, sym) ==
  [ns EXCEPT ![c].xmlBuilders = Append(@, sym)]

\* _addXmlBuilder(sym, builder) called on construct c. The builder registered under
\* a key is the same closure for every instance, so the key stands for it.
AddXmlBuilder(ns, c, sym) ==
  IF \A i \in 1..Len(ns[c].xmlBuilders) : ns[c].xmlBuilders[i] # sym
  THEN [ns EXCEPT ![c].xmlBuilders = Append(@, sym)]
  ELSE ns

\* Construct.push(scope, key, value)
Push(ns, scope, key, value) == [ns EXCEPT ![scope][key] = Append(@, value)]

\* `.teamcity/${id}/project-config.xml` and the like, as their path segments.
ConfigPath(pid) == <<".teamcity", pid, "project-config.xml">>
BuildPath(pid, bid) == <<".teamcity", pid, "buildTypes", bid, ".xml">>
VcsPath(pid, vid) == <<".teamcity", pid, "vcsRoots", vid, ".xml">>

\* The type attribute _baseToXml gives the extension element of each base class.
ExtensionType(cls) ==
  CASE cls = "BaseProjectExtension" -> "versionedSettings"
    [] cls = "BaseIssueTracker" -> "IssueTracker"
    [] cls = "BaseOAuthProvider" -> "OAuthProvider"
    [] cls = "BaseReportTab" -> "ReportTab"
    [] cls = "BasePackageRepository" -> "PackageRepository"

\* toXml() of a construct that renders as one element.
LeafToXml(ns, c) ==
  CASE ns[c].kind = "Trigger" ->
         E("build-trigger", << <<"id", ns[c].id>>, <<"type", "retryBuildTrigger">> >>, <<>>)
    [] ns[c].kind = "Parameter" ->
         E("param", << <<"name", ns[c].id>>, <<"value", "v">> >>, <<>>)
    [] ns[c].kind = "Extension" ->
         E("extension", << <<"id", ns[c].id>>, <<"type", ExtensionType(ns[c].cls)>> >>, <<>>)

\* (flag ?? false) ? "true" : "false", for a flag that is "true", "false" or absent.
FlagText(flag) == IF flag = "true" THEN "true" ELSE "false"

\* The props of a Cleanup: the flag disableCleanupPolicies ("true", "false" or
\* absent) and the array policies (absent until something is pushed to it).
\* preventDependenciesArtifactsFromCleanup is never supplied.
CleanupProps(flag) == [disableCleanupPolicies |-> flag, policiesDef |-> FALSE, policies |-> <<>>]
\* {}
EmptyProps == CleanupProps(NoProp)

\* The message of the error Cleanup.toXml throws, without the quotes it puts
\* around the two names.
ErrPolicy == "project cleanup policy needs to define at least one of keepDays or keepBuilds"

\* typeof policy.keepDays === "undefined" && typeof policy.keepBuilds === "undefined";
\* no policy of the model has keepBuilds.
PolicyInvalid(policy) == policy.keepDays = NoProp

\* Cleanup.toXml() throws: some policy defines neither keepDays nor keepBuilds.
CleanupThrows(ns, c) ==
  \E i \in 1..Len(ns[c].props.policies) : PolicyInvalid(ns[c].props.policies[i])

\* Cleanup.toXml() when it does not throw.
CleanupToXml(ns, c) ==
  E("cleanup", <<>>,
    << E("options", <<>>,
         << E("option", << <<"name", "disableCleanupPolicies">>,
                           <<"value", FlagText(ns[c].props.disableCleanupPolicies)>> >>, <<>>),
            E("option", << <<"name", "preventDependenciesArtifactsFromCleanup">>,
                           <<"value", "false">> >>, <<>>) >>) >>
    \o [i \in 1..Len(ns[c].props.policies) |->
          E("policy", << <<"type", "daysAndBuilds">>,
                         <<"cleanup-level", ns[c].props.policies[i].cleanupLevel>> >>,
            << E("parameters", <<>>,
                 IF ns[c].props.policies[i].keepDays # NoProp
                 THEN << E("param", << <<"name", "keepDays.count">>,
                                       <<"value", ns[c].props.policies[i].keepDays>> >>,
                           <<>>) >>
                 ELSE <<>>) >>)])

\* BuildOptions.toXml(), of which the options set by default are left out.
OptionsToXml(ns, c) ==
  E("options", <<>>,
    << E("option", << <<"name", "buildNumberPattern">>,
                      <<"value", Coalesce(ns[c].props.buildNumberFormat, "%build.counter%")>> >>,
         <<>>) >>)

\* The callback registered under key sym on construct c, applied: the wrapper
\* element it adds, holding the element of every construct now in c's collection;
\* for the two singletons, the element of the instance that registered.
XmlBuilder(ns, c, sym) ==
  LET wrap(name, coll) ==
        E(name, <<>>, [i \in 1..Len(coll) |-> LeafToXml(ns, coll[i])])
  IN CASE sym = "BaseBuildTrigger" -> wrap("build-triggers", ns[c].triggers)
       [] sym = "Parameter" -> wrap("parameters", ns[c].parameters)
       [] sym = "BaseProjectExtension" -> wrap("project-extensions", ns[c].extensions)
       [] sym = "Cleanup" -> CleanupToXml(ns, ns[c].cleanupRules)
       [] sym = "BuildOptions" -> OptionsToXml(ns, ns[c].options)

\* The registered callbacks run last-registered first.
RunXmlBuildersReversed(ns, c) ==
  [i \in 1..Len(ns[c].xmlBuilders) |->
     XmlBuilder(ns, c, ns[c].xmlBuilders[Len(ns[c].xmlBuilders) + 1 - i])]

\* No registered callback ever throws.
XmlBuildersThrowNever(ns, c) == FALSE

\* Some callback registered on c throws when it is run: the one of Cleanup, the
\* only one of the model whose toXml tests its props.
XmlBuildersThrow(ns, c) ==
  /\ \E i \in 1..Len(ns[c].xmlBuilders) : ns[c].xmlBuilders[i] = "Cleanup"
  /\ CleanupThrows(ns, ns[c].cleanupRules)

\* this._xmlBuilders.forEach((_) => _(x))
RunXmlBuilders(ns, c) ==
  [i \in 1..Len(ns[c].xmlBuilders) |-> XmlBuilder(ns, c, ns[c].xmlBuilders[i])]

\* Build.toXml()
BuildToXml(ns, b) ==
  XmlDocument(
    E("build-type", <<>>,
      << Text("name", Coalesce(ns[b].name, ns[b].id)),
         E("settings", <<>>, RunXmlBuilders(ns, b)) >>))

\* BaseVcsRoot._baseToXml, as GitVcsRoot.toXml() calls it.
VcsRootToXml(ns, v) ==
  XmlDocument(
    E("vcs-root", << <<"type", "jetbrains.git">> >>,
      << Text("name", Coalesce(ns[v].name, ns[v].id)) >>))

\* The project-config.xml document Project.toXml() builds.
ProjectConfig(ns, p) ==
  XmlDocument(
    E("project",
      IF ns[p].parentProject # Undefined
      THEN << <<"parent-id", ns[ns[p].parentProject].id>> >> ELSE <<>>,
      << Text("name", Coalesce(ns[p].name, ns[p].id)) >> \o RunXmlBuilders(ns, p)))

\* Project.toXml() throws: the toXml of a sub-project does, or a callback
\* registered on the project.
RECURSIVE ProjectToXmlThrows(_, _)
ProjectToXmlThrows(ns, p) ==
  \/ \E i \in 1..Len(ns[p].subProjects) : ProjectToXmlThrows(ns, ns[p].subProjects[i])
  \/ XmlBuildersThrow(ns, p)

\* Project.toXml() when it does not throw: the project's own registry, then every
\* sub-project's documents, then the project's project-config.xml, each assigned
\* by key.
RECURSIVE ProjectToXml(_, _)
ProjectToXml(ns, p) ==
  LET RECURSIVE subs(_, _)
      subs(m, i) ==
        IF i > Len(ns[p].subProjects) THEN m
        ELSE subs(MergeInto(m, ProjectToXml(ns, ns[p].subProjects[i])), i + 1)
  IN MapSet(subs(MergeInto(<<>>, ns[p].xmlDocs), 1),
            ConfigPath(ns[p].id), ProjectConfig(ns, p))


\* ---- the operations of SpecTree and SpecFrag
ProjectIds == {"P", "Q"}
BuildProps == { [id |-> "B", name |-> NoProp], [id |-> "B", name |-> "n"],
                [id |-> "C", name |-> NoProp] }
TriggerIds == {"T1", "T2"}
ParameterNames == {"a"}
ExtensionIds == {"E1"}
VcsRootIds == {"V"}
\* The base classes of the project constructs that extend Construct directly.
PlainBases == {"BaseIssueTracker", "BaseOAuthProvider", "BaseReportTab",
               "BasePackageRepository"}

\* A tree is built, then serialized: nothing is created once toXml has been called.
Constructing == result.of = Undefined

Propose(path, doc, by) == proposals' = Append(proposals, [path |-> path, doc |-> doc, by |-> by])

\* What Project's constructor does after super(null, props, builder) has returned:
\* under define semantics the declared field subProjects is (re)defined, undefined.
\* Then, for a project made by SubProject, Construct.push(this, "subProjects", p).
FinishProject(ns, c) ==
  LET ns1 == [ns EXCEPT ![c].done = TRUE,
                        ![c].subProjects = IF useDefine THEN <<>> ELSE @]
  IN IF ns[c].parentProject # Undefined
     THEN Push(ns1, ns[c].parentProject, "subProjects", c)
     ELSE ns1

\* The path and the document a Build hands to _addXmlDoc.
BuildDocPath(ns, b) == BuildPath(ns[ns[b].scope].id, ns[b].id)

\* What Build's constructor does after super(scope, props, builder) has returned.
FinishBuild(ns, b) ==
  LET ns1 == Push(ns, ns[b].scope, "builds", b)
  IN [AddXmlDoc(ns1, b, BuildDocPath(ns1, b), BuildToXml(ns1, b)) EXCEPT ![b].done = TRUE]

\* new Project(props, builder?): the root of the tree.
NewProject(id, withBuilder) ==
  /\ Constructing
  /\ nodes = <<>>
  /\ LET ns0 == <<NewConstruct("Project", "Project", id, NoProp, Undefined, Undefined, FALSE)>>
     IN IF withBuilder
        THEN nodes' = CallBuilder(ns0, 1, withBuilder) /\ cstack' = <<1>>
        ELSE nodes' = FinishProject(ns0, 1) /\ cstack' = <<>>
  /\ UNCHANGED <<useDefine, result, proposals>>

\* p.SubProject(props, builder?)
SubProject(p, id, withBuilder) ==
  /\ Constructing
  /\ Len(nodes) < MaxNodes
  /\ LET c == Len(nodes) + 1
         ns0 == Append(nodes, NewConstruct("Project", "Project", id, NoProp,
                                           Undefined, p, Pending(p)))
     IN IF withBuilder
        THEN nodes' = CallBuilder(ns0, c, withBuilder) /\ cstack' = Append(cstack, c)
        ELSE nodes' = FinishProject(ns0, c) /\ cstack' = cstack
  /\ UNCHANGED <<useDefine, result, proposals>>

\* new Build(p, props, builder?), which p.Build(props, builder?) calls.
NewBuild(p, props, withBuilder) ==
  /\ Constructing
  /\ Len(nodes) < MaxNodes
  /\ LET c == Len(nodes) + 1
         ns0 == Append(nodes, NewConstruct("Build", "Build", props.id, props.name,
                                           p, Undefined, Pending(p)))
     IN IF withBuilder
        THEN /\ nodes' = CallBuilder(ns0, c, withBuilder)
             /\ cstack' = Append(cstack, c)
             /\ UNCHANGED proposals
        ELSE /\ nodes' = FinishBuild(ns0, c)
             /\ cstack' = cstack
             /\ Propose(BuildDocPath(ns0, c), BuildToXml(Push(ns0, p, "builds", c), c), c)
  /\ UNCHANGED <<useDefine, result>>

\* The builder of the innermost pending constructor returns, and the constructor
\* runs to its end.
ReturnBuilder ==
  /\ Constructing
  /\ cstack # <<>>
  /\ nodes[Last(cstack)].kind \in {"Project", "Build"}
  /\ LET c == Last(cstack) IN
     IF nodes[c].kind = "Project"
     THEN /\ nodes' = FinishProject(nodes, c)
          /\ cstack' = Front(cstack)
          /\ UNCHANGED proposals
     ELSE IF XmlBuildersThrow(nodes, c)
     THEN \* Construct.push(scope, "builds", this), then this.toXml() throws: out
          \* of this constructor and of k of the constructors pending around it.
          /\ nodes' = Push(nodes, nodes[c].scope, "builds", c)
          /\ \E k \in 1..Len(cstack) : cstack' = SubSeq(cstack, 1, Len(cstack) - k)
          /\ UNCHANGED proposals
     ELSE /\ nodes' = FinishBuild(nodes, c)
          /\ cstack' = Front(cstack)
          /\ Propose(BuildDocPath(nodes, c),
                     BuildToXml(Push(nodes, nodes[c].scope, "builds", c), c), c)
  /\ UNCHANGED <<useDefine, result>>

\* new GitVcsRoot(p, props), which p.GitVcsRoot(props) calls.
NewVcsRoot(p, id) ==
  /\ Constructing
  /\ Len(nodes) < MaxNodes
  /\ LET c == Len(nodes) + 1
         ns0 == Append(nodes, NewConstruct("VcsRoot", "BaseVcsRoot", id, NoProp,
                                           p, Undefined, Pending(p)))
         ns1 == Push(ns0, p, "vcsRoots", c)
         path == VcsPath(nodes[p].id, id)
     IN /\ nodes' = [AddXmlDoc(ns1, p, path, VcsRootToXml(ns1, c)) EXCEPT ![c].done = TRUE]
        /\ Propose(path, VcsRootToXml(ns1, c), c)
  /\ UNCHANGED <<useDefine, cstack, result>>

\* A leaf construct of class cls that puts itself into scope's collection coll and
\* registers the collection's builder under the key sym.
NewRegistered(kind, cls, id, scope, coll, sym) ==
  /\ Constructing
  /\ Len(nodes) < MaxNodes
  /\ LET c == Len(nodes) + 1
         ns0 == Append(nodes, NewConstruct(kind, cls, id, NoProp, scope, Undefined,
                                           Pending(scope)))
     IN nodes' = [AddXmlBuilder(Push(ns0, scope, coll, c), scope, sym) EXCEPT ![c].done = TRUE]
  /\ UNCHANGED <<useDefine, cstack, result, proposals>>

\* new RetryBuildTrigger(b, props), which b.RetryTrigger(props) calls.
NewTrigger(b, id) ==
  NewRegistered("Trigger", "BaseBuildTrigger", id, b, "triggers", "BaseBuildTrigger")

\* new Parameter(scope, props), which scope.Parameter(props) calls.
NewParameter(scope, name) ==
  NewRegistered("Parameter", "Parameter", name, scope, "parameters", "Parameter")

\* new VersionedSettingsProjectExtension(p, props), which p.VersionedSettings calls.
NewExtension(p, id) ==
  NewRegistered("Extension", "BaseProjectExtension", id, p, "extensions",
                "BaseProjectExtension")

\* p.GithubIssueTracker(props), p.Gitlab(props), p.BuildReport(props),
\* p.NugetPackageRepository(props): their base classes call super(scope, props)
\* and nothing else.
NewPlain(p, cls, id) ==
  /\ Constructing
  /\ Len(nodes) < MaxNodes
  /\ nodes' = Append(nodes, [NewConstruct("Extension", cls, id, NoProp, p, Undefined,
                                          Pending(p)) EXCEPT !.done = TRUE])
  /\ UNCHANGED <<useDefine, cstack, result, proposals>>

\* p.toXml(), once every constructor has returned: the map, or the error thrown.
ToXml(p) ==
  /\ cstack = <<>>
  /\ result' = IF ProjectToXmlThrows(nodes, p)
               THEN [of |-> p, docs |-> <<>>, error |-> ErrPolicy]
               ELSE [of |-> p, docs |-> ProjectToXml(nodes, p)]
  /\ UNCHANGED <<useDefine, nodes, cstack, proposals>>

\* b.toXml(), once every constructor has returned: the document, or the error
\* thrown.
BuildToXmlCall(b) ==
  /\ cstack = <<>>
  /\ result' = IF XmlBuildersThrow(nodes, b)
               THEN [of |-> b, docs |-> <<>>, error |-> ErrPolicy]
               ELSE [of |-> b, docs |-> <<[path |-> <<>>, doc |-> BuildToXml(nodes, b)]>>]
  /\ UNCHANGED <<useDefine, nodes, cstack, proposals>>

TreeInit ==
  /\ elems = <<>>
  /\ root = Undefined
  /\ stack = <<>>
  /\ lastCall = NoCall
  /\ rootAssigns = 0
  /\ out = [of |-> Undefined, text |-> <<>>]
  /\ json = [of |-> Undefined]
  /\ useDefine \in BOOLEAN
  /\ nodes = <<>>
  /\ cstack = <<>>
  /\ result = [of |-> Undefined, docs |-> <<>>]
  /\ proposals = <<>>

TreeNext ==
  \/ \E b \in BOOLEAN : NewProject("P", b) /\ UNCHANGED xmlVars
  \/ \E p \in OfKind(nodes, "Project"), id \in ProjectIds :
       SubProject(p, id, FALSE) /\ UNCHANGED xmlVars
  \/ \E p \in OfKind(nodes, "Project"), props \in BuildProps :
       NewBuild(p, props, FALSE) /\ UNCHANGED xmlVars
  \/ \E p \in OfKind(nodes, "Project"), id \in VcsRootIds :
       NewVcsRoot(p, id) /\ UNCHANGED xmlVars
  \/ ReturnBuilder /\ UNCHANGED xmlVars
  \/ \E p \in OfKind(nodes, "Project") : ToXml(p) /\ UNCHANGED xmlVars

SpecTree == TreeInit /\ [][TreeNext]_vars

FragNext ==
  \/ \E b \in BOOLEAN : NewProject("P", b) /\ UNCHANGED xmlVars
  \/ \E p \in OfKind(nodes, "Project"), b \in BOOLEAN :
       NewBuild(p, [id |-> "B", name |-> NoProp], b) /\ UNCHANGED xmlVars
  \/ \E b \in OfKind(nodes, "Build"), id \in TriggerIds :
       NewTrigger(b, id) /\ UNCHANGED xmlVars
  \/ \E c \in OfKind(nodes, "Project") \cup OfKind(nodes, "Build"), n \in ParameterNames :
       NewParameter(c, n) /\ UNCHANGED xmlVars
  \/ \E p \in OfKind(nodes, "Project"), id \in ExtensionIds :
       NewExtension(p, id) /\ UNCHANGED xmlVars
  \/ \E p \in OfKind(nodes, "Project"), cls \in PlainBases, id \in ExtensionIds :
       NewPlain(p, cls, id) /\ UNCHANGED xmlVars
  \/ ReturnBuilder /\ UNCHANGED xmlVars
  \/ \E p \in OfKind(nodes, "Project") : ToXml(p) /\ UNCHANGED xmlVars
  \/ \E b \in OfKind(nodes, "Build") : BuildToXmlCall(b) /\ UNCHANGED xmlVars

SpecFrag == TreeInit /\ [][FragNext]_vars

\* ------------------------------------ Cleanup and BuildOptions: SpecClean
ErrCleanupSingleton == "Cleanup is a singleton"
ErrOptionsSingleton == "BuildOptions is a singleton"

\* The call shapes of new Cleanup: (scope, builder), (scope, props),
\* (scope, props, builder).
CleanupShapes == {"builder", "props", "props+builder"}
\* The props a caller hands to Cleanup.
CleanupFlags == {NoProp, "true"}
\* The policy a caller adds: Everything({keepDays: 90}). History and Artifacts
\* push the same record with another cleanupLevel.
KeepDays == "90"
CleanupLevels == {"EVERYTHING"}
BuildNumberFormats == {NoProp, "1.%build.counter%"}

\* What Cleanup's constructor hands to super as props: args[1] only when args[2]
\* is a function, {} otherwise.
CleanupSuperProps(shape, passed) ==
  IF shape = "props+builder" THEN passed ELSE EmptyProps

\* What Cleanup's constructor hands to super as builder.
CleanupHasBuilder(shape) == shape \in {"builder", "props+builder"}

\* A singleton test that finds nothing.
HasSingletonNever(ns, scope, key) == FALSE

\* typeof scope.cleanupRules !== "undefined", typeof scope.options !== "undefined"
HasSingleton(ns, scope, key) == ns[scope][key] # Undefined

\* The constructor of singleton c (Cleanup under the key cleanupRules, BuildOptions
\* under options) after super(...) has returned, with the constructors of stk
\* pending around it: the test, then the assignment and the registration of the
\* builder. A throw leaves through k of the pending constructors.
FinishSingleton(ns, c, key, sym, err, stk) ==
  LET scope == ns[c].scope
      call(outcome, after) ==
        [op |-> sym, outcome |-> outcome, ret |-> c, scope |-> scope,
         shape |-> ns[c].shape,
         ruleBefore |-> ns[c].atCall.had, ruleAfter |-> after[scope][key],
         registryBefore |-> ns[c].atCall.registry,
         registryAfter |-> after[scope].xmlBuilders]
  IN IF HasSingleton(ns, scope, key)
     THEN /\ \E k \in 0..Len(stk) : cstack' = SubSeq(stk, 1, Len(stk) - k)
          /\ lastCall' = call(err, ns)
          /\ nodes' = ns
     ELSE LET ns1 == [AddXmlBuilder([ns EXCEPT ![scope][key] = c], scope, sym)
                        EXCEPT ![c].done = TRUE]
          IN /\ nodes' = ns1
             /\ lastCall' = call(NoErr, ns1)
             /\ cstack' = stk

\* A Cleanup or BuildOptions as its constructor's call of super leaves it. passed
\* and shape are history: what the caller handed over; so is atCall: the scope's
\* singleton and registry when the constructor was called.
NewSingleton(kind, scope, key, shape, passed, props, withBuilder) ==
  [NewConstruct(kind, kind, NoProp, NoProp, scope, Undefined, Pending(scope))
     EXCEPT !.given = withBuilder]
  @@ [props |-> props, passed |-> passed, shape |-> shape,
      atCall |-> [had |-> nodes[scope][key], registry |-> nodes[scope].xmlBuilders]]

\* The builder of some Cleanup is running.
InCleanupBuilder == cstack # <<>> /\ nodes[Last(cstack)].kind = "Cleanup"

\* new Cleanup(scope, ...), which scope.Cleanup(...) calls, up to the call of the
\* builder; without a builder, to its end.
NewCleanup(scope, shape, flag) ==
  /\ Constructing
  /\ ~InCleanupBuilder
  /\ Len(nodes) < MaxNodes
  /\ Cardinality(OfKind(nodes, "Cleanup") \cup OfKind(nodes, "BuildOptions")) < MaxSingletons
  /\ LET c == Len(nodes) + 1
         passed == IF shape = "builder" THEN EmptyProps ELSE CleanupProps(flag)
         ns0 == Append(nodes, NewSingleton("Cleanup", scope, "cleanupRules", shape, passed,
                                           CleanupSuperProps(shape, passed),
                                           CleanupHasBuilder(shape)))
     IN IF CleanupHasBuilder(shape)
        THEN /\ nodes' = CallBuilder(ns0, c, TRUE)
             /\ cstack' = Append(cstack, c)
             /\ UNCHANGED lastCall
        ELSE FinishSingleton(ns0, c, "cleanupRules", "Cleanup", ErrCleanupSingleton, cstack)
  /\ UNCHANGED <<useDefine, result, proposals>>

\* c.Everything(props), called in c's builder, with props.keepDays = keepDays:
\* Construct.push(this.props, "policies", {cleanupLevel: "EVERYTHING", keepDays}).
CleanupPolicyWith(c, level, keepDays) ==
  /\ Constructing
  /\ InCleanupBuilder
  /\ c = Last(cstack)
  /\ Len(nodes[c].props.policies) < MaxPolicies
  /\ nodes' = [nodes EXCEPT ![c].props.policiesDef = TRUE,
                            ![c].props.policies =
                               Append(@, [cleanupLevel |-> level, keepDays |-> keepDays])]
  /\ UNCHANGED <<useDefine, cstack, result, proposals, lastCall>>

\* c.Everything({ keepDays: 90 })
CleanupPolicy(c, level) == CleanupPolicyWith(c, level, KeepDays)

\* The builder of the Cleanup on top of the stack returns, and the constructor runs
\* to its end.
CleanupReturn ==
  /\ Constructing
  /\ InCleanupBuilder
  /\ FinishSingleton(nodes, Last(cstack), "cleanupRules", "Cleanup", ErrCleanupSingleton,
                     Front(cstack))
  /\ UNCHANGED <<useDefine, result, proposals>>

\* new BuildOptions(b, props), which b.Options(props) calls.
NewOptions(b, fmt) ==
  /\ Constructing
  /\ ~InCleanupBuilder
  /\ Len(nodes) < MaxNodes
  /\ Cardinality(OfKind(nodes, "Cleanup") \cup OfKind(nodes, "BuildOptions")) < MaxSingletons
  /\ LET c == Len(nodes) + 1
         props == [buildNumberFormat |-> fmt]
         ns0 == Append(nodes, NewSingleton("BuildOptions", b, "options", "props", props,
                                           props, FALSE))
     IN FinishSingleton(ns0, c, "options", "BuildOptions", ErrOptionsSingleton, cstack)
  /\ UNCHANGED <<useDefine, result, proposals>>

Scopes == OfKind(nodes, "Project") \cup OfKind(nodes, "Build")
cleanVars == <<elems, root, stack, rootAssigns, out, json>>

CleanNext ==
  \/ \E b \in BOOLEAN : NewProject("P", b) /\ UNCHANGED xmlVars
  \/ \E p \in OfKind(nodes, "Project") :
       /\ ~InCleanupBuilder
       /\ NewBuild(p, [id |-> "B", name |-> NoProp], FALSE)
       /\ UNCHANGED xmlVars
  \/ \E scope \in Scopes, shape \in CleanupShapes, flag \in CleanupFlags :
       NewCleanup(scope, shape, flag) /\ UNCHANGED cleanVars
  \/ \E c \in OfKind(nodes, "Cleanup"), level \in CleanupLevels :
       CleanupPolicy(c, level) /\ UNCHANGED cleanVars
  \/ CleanupReturn /\ UNCHANGED cleanVars
  \/ \E b \in OfKind(nodes, "Build"), fmt \in BuildNumberFormats :
       NewOptions(b, fmt) /\ UNCHANGED cleanVars
  \/ ReturnBuilder /\ UNCHANGED xmlVars
  \/ \E p \in OfKind(nodes, "Project") : ToXml(p) /\ UNCHANGED xmlVars
  \/ \E b \in OfKind(nodes, "Build") : BuildToXmlCall(b) /\ UNCHANGED xmlVars

CleanInit == TreeInit /\ useDefine

SpecClean == CleanInit /\ [][CleanNext]_vars

\* The last call was new Cleanup or new BuildOptions on a scope that already had one.
SecondSingleton ==
  /\ lastCall.op \in {"Cleanup", "BuildOptions"}
  /\ lastCall.ruleBefore # Undefined

\* The Cleanups (key cleanupRules) or BuildOptions (key options) of a scope whose
\* constructor has returned.
Installed(scope, kind) ==
  { c \in OfKind(nodes, kind) : nodes[c].scope = scope /\ nodes[c].done }

\* C13: a second Cleanup on a Project or Build, or a second BuildOptions on a Build,
\* throws the singleton error out of its constructor; the scope's cleanupRules or
\* options is still the first instance, the only one whose constructor returned,
\* and the scope's registry of fragment builders is what it was before the call.
SingletonKept ==
  /\ SecondSingleton =>
       /\ lastCall.outcome = IF lastCall.op = "Cleanup" THEN ErrCleanupSingleton
                             ELSE ErrOptionsSingleton
       /\ lastCall.ruleAfter = lastCall.ruleBefore
       /\ lastCall.registryAfter = lastCall.registryBefore
  /\ \A scope \in Scopes :
       /\ Installed(scope, "Cleanup") \subseteq {nodes[scope].cleanupRules}
       /\ Installed(scope, "BuildOptions") \subseteq {nodes[scope].options}
       /\ \A c \in Installed(scope, "Cleanup") \cup Installed(scope, "BuildOptions") :
            \A d \in OfKind(nodes, nodes[c].kind) : nodes[d].scope = scope => c <= d

\* A second Cleanup with a builder was refused after a first Cleanup was installed.
SingletonKeptWitness ==
  /\ SecondSingleton
  /\ lastCall.op = "Cleanup"
  /\ lastCall.shape = "props+builder"
  /\ lastCall.outcome = ErrCleanupSingleton
  /\ nodes[lastCall.scope].cleanupRules < lastCall.ret
  /\ nodes[nodes[lastCall.scope].cleanupRules].done

\* The value of the option disableCleanupPolicies in the cleanup element the scope
\* of Cleanup c renders.
RenderedFlag(c) ==
  LET x == XmlBuilder(nodes, nodes[c].scope, "Cleanup")
  IN x.children[1].children[1].attrs[2][2]

\* C14: whichever of the call shapes (scope, builder), (scope, props),
\* (scope, props, builder) made it, an installed Cleanup holds the props its caller
\* passed ({} when none were), and its scope renders the option
\* disableCleanupPolicies from them: "true" for {disableCleanupPolicies: true}.
CleanupShapesKeepProps ==
  \A c \in OfKind(nodes, "Cleanup") :
    nodes[c].done =>
      /\ nodes[c].props.disableCleanupPolicies = nodes[c].passed.disableCleanupPolicies
      /\ RenderedFlag(c) = FlagText(nodes[c].passed.disableCleanupPolicies)

\* C20: the props a Cleanup holds are, at every later moment, what its constructor
\* handed to super, and the props object a caller handed to Cleanup is what it was
\* when it was handed over. With the shape (scope, props, builder) the two are one
\* object; with (scope, props) the caller's object is dropped.
PropsImmutable ==
  \A c \in OfKind(nodes, "Cleanup") :
    /\ nodes[c].props = CleanupSuperProps(nodes[c].shape, nodes[c].passed)
    /\ nodes[c].shape = "props+builder" => nodes[c].props = nodes[c].passed

\* ------------------------------------------------------------ SpecThrow
\* The runs of this specification: one project, with or without a builder, at
\* most one sub-project of it, at most one Build in a project at a time, and a
\* Cleanup only where none is installed, with at most one policy.
\* What a caller hands to Everything as keepDays: 90, or nothing.
KeepDaysGiven == {KeepDays, NoProp}

\* The builder callback of the innermost pending constructor throws: out of that
\* constructor, which never gets past super(...), and of k - 1 of the constructors
\* pending around it.
BuilderThrows ==
  /\ Constructing
  /\ cstack # <<>>
  /\ \E k \in 1..Len(cstack) : cstack' = SubSeq(cstack, 1, Len(cstack) - k)
  /\ UNCHANGED <<useDefine, nodes, result, proposals>>

\* toXml has not been called: a run ends with its one call of toXml.
NoCallYet == result.of = Undefined

ThrowNext ==
  \/ \E b \in BOOLEAN : NoCallYet /\ nodes = <<>> /\ NewProject("P", b) /\ UNCHANGED xmlVars
  \/ \E p \in OfKind(nodes, "Project") :
       /\ NoCallYet
       /\ ~InCleanupBuilder
       /\ nodes[p].scope = Undefined
       /\ nodes[p].subProjects = <<>>
       /\ SubProject(p, "Q", FALSE)
       /\ UNCHANGED xmlVars
  \/ \E p \in OfKind(nodes, "Project") :
       /\ NoCallYet
       /\ ~InCleanupBuilder
       /\ nodes[p].builds = <<>>
       /\ NewBuild(p, [id |-> "B", name |-> NoProp], TRUE)
       /\ UNCHANGED xmlVars
  \/ \E scope \in Scopes :
       /\ NoCallYet
       /\ nodes[scope].cleanupRules = Undefined
       /\ NewCleanup(scope, "builder", NoProp)
       /\ UNCHANGED cleanVars
  \/ \E c \in OfKind(nodes, "Cleanup"), level \in CleanupLevels, keepDays \in KeepDaysGiven :
       /\ NoCallYet
       /\ nodes[c].props.policies = <<>>
       /\ CleanupPolicyWith(c, level, keepDays)
       /\ UNCHANGED cleanVars
  \/ NoCallYet /\ CleanupReturn /\ UNCHANGED cleanVars
  \/ NoCallYet /\ ReturnBuilder /\ UNCHANGED xmlVars
  \/ NoCallYet /\ BuilderThrows /\ UNCHANGED xmlVars
  \/ \E p \in OfKind(nodes, "Project") : NoCallYet /\ ToXml(p) /\ UNCHANGED xmlVars

SpecThrow == CleanInit /\ [][ThrowNext]_vars

\* Project p and the projects below it along subProjects.
RECURSIVE ProjectsBelow(_)
ProjectsBelow(p) ==
  {p} \cup UNION { ProjectsBelow(nodes[p].subProjects[i]) : i \in 1..Len(nodes[p].subProjects) }

\* The Cleanup installed on scope has a policy with neither keepDays nor keepBuilds.
InvalidCleanupOn(scope) ==
  /\ nodes[scope].cleanupRules # Undefined
  /\ \E i \in 1..Len(nodes[nodes[scope].cleanupRules].props.policies) :
       nodes[nodes[scope].cleanupRules].props.policies[i].keepDays = NoProp

\* C21: when the toXml of a project, or of a project below it, has to render a
\* Cleanup with a policy that defines neither keepDays nor keepBuilds, the call of
\* toXml on the project ends with that error and gives no map, not even of the
\* documents that could be built; otherwise it gives a map and no error.
NoPartialResult ==
  (result.of # Undefined /\ nodes[result.of].kind = "Project") =>
    IF \E q \in ProjectsBelow(result.of) : InvalidCleanupOn(q)
    THEN /\ "error" \in DOMAIN result
         /\ result.error = ErrPolicy
         /\ result.docs = <<>>
    ELSE /\ "error" \notin DOMAIN result
         /\ ConfigPath(nodes[result.of].id) \in Keys(result.docs)

\* toXml has been called on a project whose sub-project has a Cleanup with an
\* invalid policy, and has thrown.
NoPartialResultWitness ==
  /\ result.of # Undefined
  /\ nodes[result.of].kind = "Project"
  /\ "error" \in DOMAIN result
  /\ ~InvalidCleanupOn(result.of)
  /\ \E q \in ProjectsBelow(result.of) : InvalidCleanupOn(q)

\* The constructor of construct c has thrown: it neither finished nor is pending.
Threw(c) == ~nodes[c].done /\ ~Pending(c)

\* C29: a Build whose constructor threw is not in its project's builds, and no
\* document of it was handed to the registry.
BuildAllOrNothing ==
  \A b \in OfKind(nodes, "Build") :
    Threw(b) =>
      /\ \A i \in 1..Len(nodes[nodes[b].scope].builds) : nodes[nodes[b].scope].builds[i] # b
      /\ \A j \in 1..Len(proposals) : proposals[j].by # b

\* ------------------------------------------------------------ SpecRepeat
\* Project.toXml gives the project element the attribute
\* uuid = this.props.uuid ?? uuid.v4.generate(). ProjectConfig above leaves the
\* attribute out; here it is part of the document, and a generated value is any
\* member of Uuids, chosen anew by every call.
Uuids == {"u1", "u2"}

\* The uuid a caller may hand to new Project: one, or none.
UuidProps == {"u0", NoProp}

ProjectConfigUuid(ns, p, generated) ==
  LET d == ProjectConfig(ns, p)
  IN XmlDocument([d.root EXCEPT !.attrs = << <<"uuid", Coalesce(ns[p].uuid, generated)>> >> \o @])

\* Project.toXml, with gen[q] what uuid.v4.generate() returns in the toXml of
\* project q.
RECURSIVE ProjectToXmlUuid(_, _, _)
ProjectToXmlUuid(ns, p, gen) ==
  LET RECURSIVE subs(_, _)
      subs(m, i) ==
        IF i > Len(ns[p].subProjects) THEN m
        ELSE subs(MergeInto(m, ProjectToXmlUuid(ns, ns[p].subProjects[i], gen)), i + 1)
  IN MapSet(subs(MergeInto(<<>>, ns[p].xmlDocs), 1),
            ConfigPath(ns[p].id), ProjectConfigUuid(ns, p, gen[p]))

\* new Project({id, uuid}).
NewProjectUuid(id, uuid) ==
  /\ Constructing
  /\ nodes = <<>>
  /\ nodes' = FinishProject(
                <<[NewConstruct("Project", "Project", id, NoProp, Undefined, Undefined, FALSE)
                     EXCEPT !.uuid = uuid]>>, 1)
  /\ UNCHANGED <<useDefine, cstack, result, proposals>>

\* The first call of p.toXml().
ToXmlUuid(p) ==
  /\ cstack = <<>>
  /\ result.of = Undefined
  /\ \E gen \in [1..Len(nodes) -> Uuids] :
       result' = [of |-> p, docs |-> ProjectToXmlUuid(nodes, p, gen)]
  /\ UNCHANGED <<useDefine, nodes, cstack, proposals>>

\* p.toXml() called again, nothing having happened since the first call.
ToXmlAgain(p) ==
  /\ cstack = <<>>
  /\ result.of = p
  /\ "first" \notin DOMAIN result
  /\ \E gen \in [1..Len(nodes) -> Uuids] :
       result' = [of |-> p, first |-> result.docs, docs |-> ProjectToXmlUuid(nodes, p, gen)]
  /\ UNCHANGED <<useDefine, nodes, cstack, proposals>>

RepeatNext ==
  \/ \E uuid \in UuidProps : NewProjectUuid("P", uuid) /\ UNCHANGED xmlVars
  \/ \E p \in OfKind(nodes, "Project"), id \in {"Q", "R"} :
       NoCallYet /\ SubProject(p, id, FALSE) /\ UNCHANGED xmlVars
  \/ \E p \in OfKind(nodes, "Project") :
       NoCallYet /\ NewBuild(p, [id |-> "B", name |-> NoProp], FALSE) /\ UNCHANGED xmlVars
  \/ \E p \in OfKind(nodes, "Project") : ToXmlUuid(p) /\ UNCHANGED xmlVars
  \/ \E p \in OfKind(nodes, "Project") : ToXmlAgain(p) /\ UNCHANGED xmlVars

SpecRepeat == TreeInit /\ [][RepeatNext]_vars

\* C26: two calls of toXml on an unchanged tree give the same paths and, under
\* each path, the same document (documents that differ in an attribute value
\* have different text), whether or not a uuid was supplied.
ToXmlRepeatable ==
  "first" \in DOMAIN result => result.first = result.docs

\* ------------------------------------------------------------ SpecOptions
\* BuildOptions.toXml() as a function of the props, every option included. An
\* absent prop is NoProp, a boolean prop "true" or "false", an array prop the
\* tuple of its members under the tag Arr, NoArr when absent; the text an array
\* is joined to is kept as the tuple of its lines.
Arr(members) == [t |-> "array", members |-> members]
NoArr == [t |-> "undefined", members |-> <<>>]

Option(name, value) == E("option", << <<"name", name>>, <<"value", value>> >>, <<>>)

OptionCDATA(name, lines) == E("option", << <<"name", name>> >>, << Text("CDATA", lines) >>)

BoolOption(name, prop, default) ==
  Option(name, IF Coalesce(prop, default) = "true" THEN "true" ELSE "false")

BuildOptionsToXml(props) ==
  E("options", <<>>,
    (IF props.buildConfigurationType # NoProp /\ props.buildConfigurationType # "REGULAR"
     THEN << Option("buildConfigurationType", props.buildConfigurationType) >> ELSE <<>>)
    \o << Option("buildNumberPattern", Coalesce(props.buildNumberFormat, "%build.counter%")) >>
    \o (IF props.publishArtifacts # NoProp /\ props.publishArtifacts # "EVEN_FAILURES"
        THEN << Option("publishArtifactCondition", props.publishArtifacts) >> ELSE <<>>)
    \o (IF props.artifactPaths # NoArr /\ Len(props.artifactPaths.members) > 0
        THEN << OptionCDATA("artifactRules", props.artifactPaths.members) >> ELSE <<>>)
    \o << BoolOption("enableHangingBuildsDetection", props.enableHangingBuildsDetection, "false"),
          BoolOption("allowPersonalBuildTriggering", props.allowTriggeringPersonalBuilds, "false"),
          BoolOption("allowExternalStatus", props.enableStatusWidget, "true"),
          Option("maximumNumberOfBuilds", Coalesce(props.maximumNumberOfBuilds, "0")) >>
    \o (IF Coalesce(props.checkoutMode, "ON_AGENT") # "PREFER_ON_AGENT"
        THEN << Option("checkoutMode", Coalesce(props.checkoutMode, "ON_AGENT")) >> ELSE <<>>)
    \o (IF props.checkoutDirectory # NoProp
        THEN << Option("checkoutDirectory", props.checkoutDirectory) >> ELSE <<>>)
    \o << BoolOption("cleanBuild", props.cleanBuild, "true"),
          BoolOption("showDependenciesChanges", props.showDependenciesChanges, "false"),
          BoolOption("excludeDefaultBranchChanges", props.excludeDefaultBranchChanges, "false"),
          OptionCDATA("branchFilter",
                      IF props.branchFilter = NoArr THEN <<"+:*">> ELSE props.branchFilter.members),
          Option("excludeDefaultBranchChanges", Coalesce(props.executionTimeoutMin, "0")),
          BoolOption("shouldFailBuildOnBadExitCode", props.shouldFailBuildOnBadExitCode, "true"),
          BoolOption("shouldFailBuildIfTestsFailed", props.shouldFailBuildIfTestsFailed, "true"),
          BoolOption("supportTestRetry", props.supportTestRetry, "false"),
          BoolOption("shouldFailBuildOnAnyErrorMessage", props.shouldFailBuildOnAnyErrorMessage, "false"),
          BoolOption("shouldFailBuildOnJavaCrash", props.shouldFailBuildOnJavaCrash, "false") >>)

\* The props the runs draw from: the five props that decide whether an option is
\* written take every kind of value, two of the props whose option is always
\* written are given or not, and the others are absent.
BuildOptionsProps ==
  { [ buildConfigurationType |-> type, buildNumberFormat |-> NoProp,
      publishArtifacts |-> publish, artifactPaths |-> paths,
      enableHangingBuildsDetection |-> NoProp, allowTriggeringPersonalBuilds |-> NoProp,
      enableStatusWidget |-> NoProp, maximumNumberOfBuilds |-> NoProp,
      checkoutMode |-> mode, checkoutDirectory |-> dir,
      cleanBuild |-> NoProp, showDependenciesChanges |-> NoProp,
      excludeDefaultBranchChanges |-> exclude, branchFilter |-> NoArr,
      executionTimeoutMin |-> timeout, shouldFailBuildOnBadExitCode |-> NoProp,
      shouldFailBuildIfTestsFailed |-> NoProp, supportTestRetry |-> NoProp,
      shouldFailBuildOnAnyErrorMessage |-> NoProp, shouldFailBuildOnJavaCrash |-> NoProp ] :
    type \in {NoProp, "REGULAR", "DEPLOYMENT", "COMPOSITE"},
    publish \in {NoProp, "EVEN_FAILURES", "SUCCESSFUL", "ALWAYS"},
    paths \in {NoArr, Arr(<<>>), Arr(<<"a", "b">>)},
    mode \in {NoProp, "MANUAL", "ON_SERVER", "ON_AGENT", "PREFER_ON_AGENT"},
    dir \in {NoProp, "dir"},
    exclude \in {NoProp, "true"},
    timeout \in {NoProp, "5"} }

\* A BuildOptions with its props, toXml not yet called.
OptionsInit ==
  /\ elems = <<>>
  /\ root = Undefined
  /\ stack = <<>>
  /\ rootAssigns = 0
  /\ out = [of |-> Undefined, text |-> <<>>]
  /\ json = [of |-> Undefined]
  /\ useDefine = TRUE
  /\ nodes = <<>>
  /\ cstack = <<>>
  /\ result = [of |-> Undefined, docs |-> <<>>]
  /\ proposals = <<>>
  /\ \E props \in BuildOptionsProps :
       lastCall = [op |-> "BuildOptions", props |-> props]

\* options.toXml()
OptionsToXmlCall ==
  /\ "xml" \notin DOMAIN lastCall
  /\ lastCall' = [op |-> "BuildOptions", props |-> lastCall.props,
                  xml |-> BuildOptionsToXml(lastCall.props)]
  /\ UNCHANGED <<elems, root, stack, rootAssigns, out, json>>
  /\ UNCHANGED treeVars

OptionsNext == OptionsToXmlCall

SpecOptions == OptionsInit /\ [][OptionsNext]_vars

\* The value of attribute key of element el of a document; NoProp when it has none.
AttrOf(el, key) ==
  IF \E i \in 1..Len(el.attrs) : el.attrs[i][1] = key
  THEN el.attrs[CHOOSE i \in 1..Len(el.attrs) : el.attrs[i][1] = key][2]
  ELSE NoProp

\* C30: no two option children of the element BuildOptions.toXml() returns have
\* the same name attribute.
OptionNamesDistinct ==
  "xml" \in DOMAIN lastCall =>
    \A i, j \in 1..Len(lastCall.xml.children) :
      i # j => AttrOf(lastCall.xml.children[i], "name") # AttrOf(lastCall.xml.children[j], "name")

\* ------------------------------------------------------------ SpecNode
NodeInit == DocInit

\* SpecNode makes elements and documents, or else constructs: the two kinds of
\* object do not meet in a constructor or in a Node call.
NoElements == elems = <<>> /\ stack = <<>> /\ lastCall = NoCall
NoConstructs == nodes = <<>>

\* new Project(props, builder?) and new Build(p, props, builder?) in SpecNode.
NProject(withBuilder) == NoElements /\ NewProject("P", withBuilder)
NBuild(p, withBuilder) ==
  NoElements /\ NewBuild(p, [id |-> "B", name |-> NoProp], withBuilder)

NodeNext ==
  \/ \E args \in NodeArgs : NoConstructs /\ NNew(args) /\ UNCHANGED <<out, json>> /\ UNCHANGED treeVars
  \/ \E p \in 1..Len(elems), args \in NodeArgs : NNode(p, args) /\ UNCHANGED <<out, json>> /\ UNCHANGED treeVars
  \/ \E args \in NodeDocArgs : NoConstructs /\ DocNode(args) /\ UNCHANGED <<out, json>> /\ UNCHANGED treeVars
  \/ NBuilderReturn /\ UNCHANGED <<out, json>> /\ UNCHANGED treeVars
  \/ \E b \in BOOLEAN : NProject(b) /\ UNCHANGED xmlVars
  \/ \E p \in OfKind(nodes, "Project"), b \in BOOLEAN : NBuild(p, b) /\ UNCHANGED xmlVars
  \/ ReturnBuilder /\ UNCHANGED xmlVars

SpecNode == NodeInit /\ [][NodeNext]_vars

\* ------------------------------------------------------------------ C17
\* C17: a creating call (Construct's constructor, new XmlElement, XmlElement.Node,
\* XmlDocument.Node) that is handed a builder calls it once with the new node, and
\* one that is handed none calls nothing; while the builder runs the creating call
\* has not returned, and when the call returns the builder is no longer running.
BuilderOnce ==
  /\ \A e \in 1..Len(elems) : elems[e].runs = IF elems[e].given THEN 1 ELSE 0
  /\ \A i \in 1..Len(stack) : elems[stack[i].node].given
  /\ (lastCall.op \in {"new", "ENode", "Node"} /\ lastCall.outcome = NoErr) =>
       \A i \in 1..Len(stack) : stack[i].node # lastCall.ret
  /\ \A c \in 1..Len(nodes) :
       /\ nodes[c].runs = IF nodes[c].given THEN 1 ELSE 0
       /\ Pending(c) => (nodes[c].given /\ ~nodes[c].done)
       /\ nodes[c].done => ~Pending(c)

\* XmlElement.Node has returned an element it made and called a builder with.
BuilderOnceWitness ==
  /\ lastCall.op = "ENode" /\ lastCall.outcome = NoErr
  /\ lastCall.passed = Undefined
  /\ elems[lastCall.ret].given /\ elems[lastCall.ret].runs = 1
  /\ lastCall.parentOfRet = lastCall.recv


\* ------------------------------------------------------------ C3 .. C8
\* The members of a set of constructs in the order they were created.
RECURSIVE InOrder(_)
InOrder(S) ==
  IF S = {} THEN <<>>
  ELSE LET m == CHOOSE x \in S : \A y \in S : x <= y IN <<m>> \o InOrder(S \ {m})

\* The constructs of a kind that were created with scope c.
ChildrenOf(c, kind) == { x \in OfKind(nodes, kind) : nodes[x].scope = c }

\* How often element x occurs in the tree of element el.
RECURSIVE Occurrences(_, _)
Occurrences(el, x) ==
  LET RECURSIVE sum(_)
      sum(i) == IF i > Len(el.children) THEN 0
                ELSE Occurrences(el.children[i], x) + sum(i + 1)
  IN (IF el = x THEN 1 ELSE 0) + sum(1)

\* Element parent holds exactly one wrapper named name, whose children are the
\* elements of the constructs cs in order; or none when cs is empty.
OneSection(parent, name, cs) ==
  LET ws == SelectSeq(parent.children, LAMBDA w : w.name = name) IN
  IF cs = <<>> THEN ws = <<>>
  ELSE /\ Len(ws) = 1
       /\ ws[1].children = [i \in 1..Len(cs) |-> LeafToXml(nodes, cs[i])]

\* C3: when N >= 1 constructs of a kind have registered the same fragment key on
\* a parent, the parent's rendered output holds exactly one wrapper element for
\* the kind, whose children are the N constructs' elements in construction order
\* (triggers and parameters of a Build, parameters and extensions of a Project).
FragmentIdempotency ==
  /\ (result.of # Undefined /\ nodes[result.of].kind = "Build") =>
       LET settings == result.docs[1].doc.root.children[2] IN
       /\ OneSection(settings, "build-triggers", InOrder(ChildrenOf(result.of, "Trigger")))
       /\ OneSection(settings, "parameters", InOrder(ChildrenOf(result.of, "Parameter")))
  /\ (result.of # Undefined /\ nodes[result.of].kind = "Project") =>
       LET project == Get(result.docs, ConfigPath(nodes[result.of].id)).root IN
       /\ OneSection(project, "parameters", InOrder(ChildrenOf(result.of, "Parameter")))
       /\ OneSection(project, "project-extensions",
                     InOrder({ x \in ChildrenOf(result.of, "Extension") :
                                 nodes[x].cls = "BaseProjectExtension" }))

\* A Build with two triggers has been rendered.
FragmentIdempotencyWitness ==
  /\ result.of # Undefined
  /\ nodes[result.of].kind = "Build"
  /\ Cardinality(ChildrenOf(result.of, "Trigger")) >= 2

\* The key under which construct x registers a fragment callback on its scope.
KeyOf(x) ==
  CASE nodes[x].kind = "Trigger" -> "BaseBuildTrigger"
    [] nodes[x].kind = "Parameter" -> "Parameter"
    [] nodes[x].kind = "Extension" -> "BaseProjectExtension"

\* The constructs created with scope c whose constructor registers a callback.
Registering(c) ==
  { x \in 1..Len(nodes) :
      /\ nodes[x].scope = c
      /\ \/ nodes[x].kind \in {"Trigger", "Parameter"}
         \/ nodes[x].kind = "Extension" /\ nodes[x].cls = "BaseProjectExtension" }

\* Of every kind created on c, the first construct, in creation order.
FirstOfKind(c) ==
  InOrder({ x \in Registering(c) :
              \A y \in Registering(c) : KeyOf(y) = KeyOf(x) => x <= y })

\* The names of the aggregate sections of c, in the order of the first construct
\* of each kind.
ExpectedSections(c) ==
  [i \in 1..Len(FirstOfKind(c)) |-> XmlBuilder(nodes, c, KeyOf(FirstOfKind(c)[i])).name]

Names(children) == [i \in 1..Len(children) |-> children[i].name]

\* C16: a rendered Build's settings element, and a rendered Project's project
\* element after its name, hold one aggregate section per kind of construct
\* created on the node and no other, in the order in which the first construct of
\* each kind was created: every registered callback ran once, in registration order.
SectionsInRegistrationOrder ==
  /\ (result.of # Undefined /\ nodes[result.of].kind = "Build") =>
       Names(result.docs[1].doc.root.children[2].children) = ExpectedSections(result.of)
  /\ (result.of # Undefined /\ nodes[result.of].kind = "Project") =>
       Names(Tail(Get(result.docs, ConfigPath(nodes[result.of].id)).root.children))
         = ExpectedSections(result.of)

\* A Build whose first parameter was created before its first trigger has been
\* rendered: parameters comes before build-triggers.
SectionsInRegistrationOrderWitness ==
  /\ result.of # Undefined
  /\ nodes[result.of].kind = "Build"
  /\ \E x \in ChildrenOf(result.of, "Parameter"), y \in ChildrenOf(result.of, "Trigger") :
       x < y
  /\ Names(result.docs[1].doc.root.children[2].children) = <<"parameters", "build-triggers">>

\* Construct c and the constructs above it along scope.
RECURSIVE ScopeChain(_)
ScopeChain(c) ==
  IF nodes[c].scope = Undefined THEN {c} ELSE {c} \cup ScopeChain(nodes[c].scope)

\* C24: the root node of a construct is the one construct of its scope chain that
\* has no scope, the construct itself when it has none; a document proposed through
\* _addXmlDoc is kept in the registry of the proposer's root node under its path
\* (the first one proposed there for the path), and every entry of a registry was
\* proposed by a construct below that root: no other construct's registry has it.
RootRegistry ==
  /\ \A c \in 1..Len(nodes) :
       /\ RootNode(nodes, c) \in ScopeChain(c)
       /\ nodes[RootNode(nodes, c)].scope = Undefined
       /\ nodes[c].scope = Undefined => RootNode(nodes, c) = c
       /\ nodes[c].scope # Undefined => nodes[c].xmlDocs = <<>>
       /\ \A i \in 1..Len(nodes[c].xmlDocs) :
            \E j \in 1..Len(proposals) :
              /\ RootNode(nodes, proposals[j].by) = c
              /\ proposals[j].path = nodes[c].xmlDocs[i].path
              /\ proposals[j].doc = nodes[c].xmlDocs[i].doc
  /\ \A j \in 1..Len(proposals) :
       LET r == RootNode(nodes, proposals[j].by) IN
       /\ proposals[j].path \in Keys(nodes[r].xmlDocs)
       /\ (\A k \in 1..(j - 1) :
             RootNode(nodes, proposals[k].by) = r => proposals[k].path # proposals[j].path)
            => Get(nodes[r].xmlDocs, proposals[j].path) = proposals[j].doc

\* A build made on a sub-project has proposed its document: the sub-project, whose
\* scope is null, has it in its registry and the parent project has not.
RootRegistryWitness ==
  \E b \in OfKind(nodes, "Build") :
    LET q == nodes[b].scope IN
    /\ nodes[q].parentProject # Undefined
    /\ RootNode(nodes, b) = q
    /\ BuildDocPath(nodes, b) \in Keys(nodes[q].xmlDocs)
    /\ BuildDocPath(nodes, b) \notin Keys(nodes[nodes[q].parentProject].xmlDocs)

\* The semantic collections of a construct.
Collections == {"subProjects", "builds", "vcsRoots", "extensions", "parameters", "triggers"}

IsPrefix(s, t) == Len(s) <= Len(t) /\ SubSeq(t, 1, Len(s)) = s

\* C19: in every step, every semantic collection of every construct keeps the
\* entries it has, in their places, and at most gets new ones at its end.
CollectionsOnlyGrow ==
  [][\A c \in 1..Len(nodes) : \A key \in Collections :
       IsPrefix(nodes[c][key], nodes'[c][key])]_vars

\* Every SubProject call that has returned left its project in the parent's list.
NoSubProjectLost ==
  \A x \in OfKind(nodes, "Project") :
    (nodes[x].parentProject # Undefined /\ nodes[x].done) =>
      \E i \in 1..Len(nodes[nodes[x].parentProject].subProjects) :
        nodes[nodes[x].parentProject].subProjects[i] = x

\* C4: when two descendants propose different documents at the same path, the map
\* returned by the root's toXml() holds the one proposed first.
DocumentFirstWins ==
  (result.of = 1 /\ NoSubProjectLost) =>
    \A i \in 1..Len(proposals), j \in 1..Len(proposals) :
      ( /\ i < j
        /\ proposals[i].path = proposals[j].path
        /\ proposals[i].doc # proposals[j].doc
        /\ \A k \in 1..(i - 1) : proposals[k].path # proposals[i].path
        /\ proposals[i].path \in Keys(result.docs) ) =>
        Get(result.docs, proposals[i].path) = proposals[i].doc

\* C5: for a Build b and a child c created with scope b, inside b's builder or
\* after b's constructor has returned, the document for b in the map returned by
\* the root Project's toXml() holds c's element.
FluentEqualsClassical ==
  result.of = 1 =>
    \A b \in ChildrenOf(1, "Build") :
      (\A b2 \in ChildrenOf(1, "Build") : b2 # b => nodes[b2].id # nodes[b].id) =>
        \A c \in ChildrenOf(b, "Trigger") \cup ChildrenOf(b, "Parameter") :
          /\ BuildDocPath(nodes, b) \in Keys(result.docs)
          /\ Occurrences(Get(result.docs, BuildDocPath(nodes, b)).root,
                         LeafToXml(nodes, c)) >= 1

\* The keys Project.toXml() is to return for project p: its project-config.xml,
\* one per build and VCS root in its collections, and its sub-projects' keys.
RECURSIVE ExpectedKeys(_)
ExpectedKeys(p) ==
  {ConfigPath(nodes[p].id)}
  \cup { BuildPath(nodes[p].id, nodes[nodes[p].builds[i]].id) : i \in 1..Len(nodes[p].builds) }
  \cup { VcsPath(nodes[p].id, nodes[nodes[p].vcsRoots[i]].id) : i \in 1..Len(nodes[p].vcsRoots) }
  \cup UNION { ExpectedKeys(nodes[p].subProjects[i]) : i \in 1..Len(nodes[p].subProjects) }

DistinctIds(coll) ==
  \A i \in 1..Len(coll), j \in 1..Len(coll) : i # j => nodes[coll[i]].id # nodes[coll[j]].id

\* C6: for a Project whose builds and VCS roots have pairwise distinct ids, the
\* keys of the map toXml() returns are exactly its project-config.xml, one
\* buildTypes key per attached Build, one vcsRoots key per attached VCS root, and
\* the keys of the sub-projects in its subProjects list; each begins with .teamcity/.
ProjectKeys ==
  (/\ result.of # Undefined
   /\ nodes[result.of].kind = "Project"
   /\ DistinctIds(nodes[result.of].builds)
   /\ DistinctIds(nodes[result.of].vcsRoots)) =>
    /\ Keys(result.docs) = ExpectedKeys(result.of)
    /\ Cardinality(Keys(result.docs)) = Len(result.docs)
    /\ \A k \in Keys(result.docs) : k[1] = ".teamcity"
    /\ Cardinality({ k \in Keys(result.docs) :
                       k[2] = nodes[result.of].id /\ k[3] = "buildTypes" })
         >= Len(nodes[result.of].builds)
    /\ Cardinality({ k \in Keys(result.docs) :
                       k[2] = nodes[result.of].id /\ k[3] = "vcsRoots" })
         >= Len(nodes[result.of].vcsRoots)

\* A project with a build, a VCS root and a sub-project has been serialized.
ProjectKeysWitness ==
  /\ result.of # Undefined
  /\ nodes[result.of].kind = "Project"
  /\ Len(nodes[result.of].builds) >= 1
  /\ Len(nodes[result.of].vcsRoots) >= 1
  /\ Len(nodes[result.of].subProjects) >= 1
  /\ nodes[nodes[result.of].subProjects[1]].id # nodes[result.of].id

\* C7: every construct added to a Project through a factory method is
\* represented by exactly one element in the project's project-config.xml.
FactoryConstructsRendered ==
  (result.of # Undefined /\ nodes[result.of].kind = "Project") =>
    LET project == Get(result.docs, ConfigPath(nodes[result.of].id)).root
        made == ChildrenOf(result.of, "Parameter") \cup ChildrenOf(result.of, "Extension")
    IN \A c \in made :
         Occurrences(project, LeafToXml(nodes, c))
           = Cardinality({ d \in made : LeafToXml(nodes, d) = LeafToXml(nodes, c) })

\* C8: a sub-project created with p.SubProject inside p's builder is in
\* p.subProjects after p's constructor has returned, and p.toXml() holds its
\* project-config.xml, whose project element carries parent-id = p's id.
SubProjectKept ==
  \A x \in OfKind(nodes, "Project") :
    LET p == nodes[x].parentProject IN
    (p # Undefined /\ nodes[x].fluent /\ nodes[x].done /\ nodes[p].done) =>
      /\ \E i \in 1..Len(nodes[p].subProjects) : nodes[p].subProjects[i] = x
      /\ (result.of = p /\ nodes[x].id # nodes[p].id) =>
           /\ ConfigPath(nodes[x].id) \in Keys(result.docs)
           /\ Get(result.docs, ConfigPath(nodes[x].id)).root.attrs
                = << <<"parent-id", nodes[p].id>> >>

====
